---- MODULE Spec2Model ----
(***************************************************************************)
(* Printer-ETL-Hub: the telemetry enrichment engine.                       *)
(*                                                                         *)
(* Definitions are prefixed by the source file they model:                 *)
(*   snmp_    adapters/snmp_alerts.py                                       *)
(*   ledm_    adapters/ledm_client.py                                       *)
(*   ews_     adapters/ews_alerts.py                                        *)
(*   hpews_   Component/printerError/hp_ews_active_alerts.py (SNMP alerts)  *)
(*   hpledm_  Component/printerError/hp_ledm_status.py                      *)
(*   hpenr_   Component/printerError/hp_snmp_enricher.py (EWS scraping)     *)
(*   toner_   Component/tonerFinder/toner-LaserJet.py                       *)
(* Python strings are TLA+ strings; str methods are modelled character by   *)
(* character (py_lower, py_strip, py_in, ...).                              *)
(* A local variable of the code is a parameter of a LET-local operator,    *)
(* applied once to the expression the code assigns to it.                  *)
(***************************************************************************)
EXTENDS Integers, Sequences, FiniteSets, TLC

\* ------------------------------------------------------------------------
\* Python string primitives
\* ------------------------------------------------------------------------
UpperChars == "ABCDEFGHIJKLMNOPQRSTUVWXYZ"
LowerChars == "abcdefghijklmnopqrstuvwxyz"
DigitChars == "0123456789"

\* s[i:i+1] with 1-based i: "" outside the string
CharAt(s, i) == IF i \in 1..Len(s) THEN SubSeq(s, i, i) ELSE ""

IndexIn(alphabet, c) ==
    IF \E i \in 1..Len(alphabet) : CharAt(alphabet, i) = c
    THEN CHOOSE i \in 1..Len(alphabet) : CharAt(alphabet, i) = c
    ELSE 0

IsUpperChar(c) == IndexIn(UpperChars, c) > 0
IsLowerChar(c) == IndexIn(LowerChars, c) > 0
IsDigitChar(c) == IndexIn(DigitChars, c) > 0
\* \w of the re module
IsWordChar(c) == IsUpperChar(c) \/ IsLowerChar(c) \/ IsDigitChar(c) \/ c = "_"

RECURSIVE py_lower(_)
py_lower(s) ==
    IF s = "" THEN ""
    ELSE LET c == CharAt(s, 1)
             k == IndexIn(UpperChars, c)
         IN  (IF k > 0 THEN CharAt(LowerChars, k) ELSE c) \o py_lower(SubSeq(s, 2, Len(s)))

RECURSIVE py_upper(_)
py_upper(s) ==
    IF s = "" THEN ""
    ELSE LET c == CharAt(s, 1)
             k == IndexIn(LowerChars, c)
         IN  (IF k > 0 THEN CharAt(UpperChars, k) ELSE c) \o py_upper(SubSeq(s, 2, Len(s)))

\* str.strip(chars): chars is a string of the characters to strip
RECURSIVE py_lstrip(_, _)
py_lstrip(s, chars) ==
    IF s # "" /\ IndexIn(chars, CharAt(s, 1)) > 0
    THEN py_lstrip(SubSeq(s, 2, Len(s)), chars)
    ELSE s

RECURSIVE py_rstrip(_, _)
py_rstrip(s, chars) ==
    IF s # "" /\ IndexIn(chars, CharAt(s, Len(s))) > 0
    THEN py_rstrip(SubSeq(s, 1, Len(s) - 1), chars)
    ELSE s

py_strip_chars(s, chars) == py_rstrip(py_lstrip(s, chars), chars)
py_strip(s) == py_strip_chars(s, " ")

\* sub in s
py_in(sub, s) ==
    \E i \in 0..(Len(s) - Len(sub)) : SubSeq(s, i + 1, i + Len(sub)) = sub

py_startswith(s, pre) == Len(pre) <= Len(s) /\ SubSeq(s, 1, Len(pre)) = pre

py_isdigit(s) == s # "" /\ \A i \in 1..Len(s) : IsDigitChar(CharAt(s, i))

\* int(s) of a digit string
RECURSIVE py_int(_)
py_int(s) ==
    IF s = "" THEN 0
    ELSE 10 * py_int(SubSeq(s, 1, Len(s) - 1)) + (IndexIn(DigitChars, CharAt(s, Len(s))) - 1)

\* str(n) of a natural number
RECURSIVE py_str(_)
py_str(n) ==
    IF n < 10 THEN CharAt(DigitChars, n + 1)
    ELSE py_str(n \div 10) \o CharAt(DigitChars, (n % 10) + 1)

\* the text after the last "." (oid.split(".")[-1])
RECURSIVE LastPart(_)
LastPart(s) ==
    IF s = "" \/ CharAt(s, Len(s)) = "." THEN ""
    ELSE LastPart(SubSeq(s, 1, Len(s) - 1)) \o CharAt(s, Len(s))

\* s.split(".") as a sequence of strings
RECURSIVE py_split_dot(_)
py_split_dot(s) ==
    IF ~ py_in(".", s) THEN << s >>
    ELSE LET last == LastPart(s)
         IN  Append(py_split_dot(SubSeq(s, 1, Len(s) - Len(last) - 1)), last)

\* the order of str < str on the characters of an OID instance
OidChars == ".0123456789"
RECURSIVE py_str_less(_, _)
py_str_less(a, b) ==
    IF a = "" THEN b # ""
    ELSE IF b = "" THEN FALSE
    ELSE LET ca == IndexIn(OidChars, CharAt(a, 1))
             cb == IndexIn(OidChars, CharAt(b, 1))
         IN  IF ca # cb THEN ca < cb
             ELSE py_str_less(SubSeq(a, 2, Len(a)), SubSeq(b, 2, Len(b)))

\* Python's None, where the value it stands beside is a string
None == "<None>"

\* dict.get(key) with a default
Get(d, k, default) == IF k \in DOMAIN d THEN d[k] ELSE default
Has(d, k) == k \in DOMAIN d


\* ------------------------------------------------------------------------
\* SNMP values as puresnmp hands them over: an int, a str, or bytes (given
\* as their decoded text, "bytes", or as raw octets, "octets")
\* ------------------------------------------------------------------------
IntV(n) == [t |-> "int", v |-> n]
StrV(s) == [t |-> "str", v |-> s]
BytesV(s) == [t |-> "bytes", v |-> s]
OctetsV(bs) == [t |-> "octets", v |-> bs]

RECURSIVE OctetsDecimal(_)
OctetsDecimal(bs) ==
    IF bs = << >> THEN 0 ELSE 10 * OctetsDecimal(SubSeq(bs, 1, Len(bs) - 1)) + (bs[Len(bs)] - 48)

\* int(value): [ok |-> FALSE] stands for the ValueError/TypeError the code catches
py_int_value(val) ==
    CASE val.t = "int" -> [ok |-> TRUE, v |-> val.v]
      [] val.t \in {"str", "bytes"} ->
            IF py_isdigit(py_strip(val.v)) THEN [ok |-> TRUE, v |-> py_int(py_strip(val.v))]
            ELSE [ok |-> FALSE, v |-> 0]
      [] OTHER ->
            IF val.v # << >> /\ \A i \in 1..Len(val.v) : val.v[i] \in 48..57
            THEN [ok |-> TRUE, v |-> OctetsDecimal(val.v)]
            ELSE [ok |-> FALSE, v |-> 0]

\* ------------------------------------------------------------------------
\* adapters/snmp_alerts.py
\* ------------------------------------------------------------------------
ALERT_TABLE_ROOT == "1.3.6.1.2.1.43.18.1.1"
COL_SEVERITY == "2"
COL_TRAINING == "3"
COL_GROUP == "4"
COL_GROUPIDX == "5"
COL_LOCATION == "6"
COL_CODE == "7"
COL_DESC == "8"
COL_TIME == "9"

HR_BITS ==
    << <<"lowPaper", 0>>, <<"noPaper", 1>>, <<"lowToner", 2>>, <<"noToner", 3>>,
       <<"doorOpen", 4>>, <<"jammed", 5>>, <<"offline", 6>>, <<"serviceRequested", 7>>,
       <<"inputTrayMissing", 8>>, <<"outputTrayMissing", 9>>, <<"markerSupplyMissing", 10>>,
       <<"outputNearFull", 11>>, <<"outputFull", 12>>, <<"inputTrayEmpty", 13>>,
       <<"overduePreventMaint", 14>> >>

SUPPRESS_PHRASES ==
    { "sleep mode on", "power saver mode", "מצב שינה פועל", "genuine hp cartridge installed" }

HEB_EN ==
    ( "תוף שחור ברמה נמוכה מאוד" :> "Black drum very low" ) @@
    ( "אי-התאמת גודל ב-מגש 1" :> "Tray 1 size mismatch" ) @@
    ( "גודל בלתי צפוי ב-מגש 1" :> "Unexpected size in Tray 1" ) @@
    ( "מושהה" :> "Paused" ) @@
    ( "41.03.B1 גודל בלתי צפוי ב-מגש 1" :> "Unexpected size in Tray 1" ) @@
    ( "66044" :> "Service requested" )

\* str(v): bytes print as their repr
snmp_to_text(val) ==
    CASE val.t = "int" -> py_str(val.v)
      [] val.t = "str" -> val.v
      [] val.t = "bytes" -> "b'" \o val.v \o "'"
      [] OTHER -> "b'...'"

\* num is a dict row; the severity column holds an int when present
snmp_severity_tag(row) ==
    IF ~ Has(row, COL_SEVERITY) THEN "unknown"
    ELSE LET n == row[COL_SEVERITY]
         IN  IF n = 1 THEN "other"
             ELSE IF n = 2 THEN "unknown"
             ELSE IF n = 3 THEN "warning"
             ELSE IF n = 4 THEN "critical"
             ELSE "unknown"

snmp_clean_desc(desc) ==
    LET suppress(d2) == IF py_lower(d2) \in SUPPRESS_PHRASES THEN "" ELSE d2
        translate(d) ==
            IF d = "" THEN ""
            ELSE suppress(IF d \in DOMAIN HEB_EN THEN HEB_EN[d] ELSE d)
    IN  translate(py_strip(desc))

\* _mk_msg(severity, group, code, desc, groupidx) on the row's columns
snmp_mk_msg(row) ==
    LET msg(d) ==
            IF d # "" THEN d
            ELSE IF Has(row, COL_CODE) /\ row[COL_CODE] # 0 THEN "Code " \o py_str(row[COL_CODE])
            ELSE ""
    IN  msg(snmp_clean_desc(Get(row, COL_DESC, "")))

RECURSIVE Pow2(_)
Pow2(n) == IF n = 0 THEN 1 ELSE 2 * Pow2(n - 1)

snmp_hr_bits_as_flags(bits) ==
    SelectSeq([i \in 1..Len(HR_BITS) |-> HR_BITS[i]],
              LAMBDA nb : (bits \div Pow2(nb[2])) % 2 = 1)

RECURSIVE JoinComma(_)
JoinComma(flags) ==
    IF flags = << >> THEN ""
    ELSE IF Len(flags) = 1 THEN flags[1][1]
    ELSE flags[1][1] \o ", " \o JoinComma(Tail(flags))

\* one column of one varbind into its row dict
snmp_set_column(rowdict, col, value) ==
    IF col \in {COL_SEVERITY, COL_GROUP, COL_GROUPIDX, COL_CODE}
    THEN LET put(n) == IF n.ok THEN (col :> n.v) @@ rowdict ELSE rowdict
         IN  put(py_int_value(value))
    ELSE IF col = COL_DESC
    THEN LET put(txt) == IF txt # "" THEN (col :> txt) @@ rowdict ELSE rowdict
         IN  put(py_strip(snmp_to_text(value)))
    ELSE IF col = COL_TIME
    THEN (col :> py_strip(snmp_to_text(value))) @@ rowdict
    ELSE rowdict

\* _snmp_alert_rows over the varbinds walk_oid yields: [raised, rows];
\* int(parts[-1]) raises ValueError on a non-numeric last component
RECURSIVE snmp_alert_rows(_)
snmp_alert_rows(vbs) ==
    IF vbs = << >> THEN [raised |-> FALSE, rows |-> << >>]
    ELSE LET store(before, vb, col, row) ==
                 [raised |-> FALSE,
                  rows |-> (row :> snmp_set_column(Get(before.rows, row, << >>), col, vb.value))
                           @@ before.rows]
             step(before, vb, parts) ==
                 IF before.raised THEN before
                 ELSE IF Len(parts) < 2 THEN before
                 ELSE IF ~ py_isdigit(parts[Len(parts)]) THEN [raised |-> TRUE, rows |-> before.rows]
                 ELSE store(before, vb, parts[Len(parts) - 1], py_int(parts[Len(parts)]))
         IN  step(snmp_alert_rows(SubSeq(vbs, 1, Len(vbs) - 1)), vbs[Len(vbs)],
                  py_split_dot(vbs[Len(vbs)].oid))

\* an Optional[Tuple[str, str]]: ok is FALSE for None
NoMsg == [ok |-> FALSE, msg |-> "", sev |-> ""]
Msg(m, s) == [ok |-> TRUE, msg |-> m, sev |-> s]

\* _snmp_hr_errorstate over the values the second walk yields
RECURSIVE snmp_hr_errorstate(_)
snmp_hr_errorstate(vals) ==
    IF vals = << >> THEN NoMsg
    ELSE LET fromFlags(flags) ==
                 IF flags = << >> THEN NoMsg
                 ELSE Msg(JoinComma(flags),
                          IF \E i \in 1..Len(flags) : flags[i][1] \in {"offline", "serviceRequested"}
                          THEN "critical" ELSE "warning")
             fromValue(n) ==
                 IF ~ n.ok THEN snmp_hr_errorstate(Tail(vals))
                 ELSE fromFlags(snmp_hr_bits_as_flags(n.v))
         IN  fromValue(py_int_value(Head(vals)))

\* the keys of a dict with int keys, ascending
RECURSIVE SortedIntKeys(_)
SortedIntKeys(S) ==
    IF S = {} THEN << >>
    ELSE LET m == CHOOSE a \in S : \A b \in S : a <= b
         IN  << m >> \o SortedIntKeys(S \ {m})

\* the inner loop of _decide_message_from_rows for one severity_pick
RECURSIVE snmp_first_msg(_, _, _)
snmp_first_msg(ordered, rows, severity_pick) ==
    IF ordered = << >> THEN ""
    ELSE LET pick(r, msg) ==
                 IF snmp_severity_tag(r) = severity_pick /\ msg # ""
                 THEN msg
                 ELSE snmp_first_msg(Tail(ordered), rows, severity_pick)
         IN  pick(rows[Head(ordered)], snmp_mk_msg(rows[Head(ordered)]))

SeverityPicks == << "critical", "warning", "other", "unknown" >>

snmp_decide_message_from_rows(rows) ==
    LET first(msgs, p) ==
            Msg(msgs[p], IF SeverityPicks[p] = "critical" THEN "critical" ELSE "warning")
        decide(msgs) ==
            IF DOMAIN rows = {} \/ \A p \in 1..4 : msgs[p] = "" THEN NoMsg
            ELSE first(msgs, CHOOSE q \in 1..4 : msgs[q] # "" /\ \A o \in 1..(q - 1) : msgs[o] = "")
    IN  decide([p \in 1..4 |->
                   snmp_first_msg(SortedIntKeys(DOMAIN rows), rows, SeverityPicks[p])])

\* process_snmp_alerts with the bitmask consulted before the rows
snmp_process_snmp_alerts_bitmask_first(vbs, hrvals) ==
    LET result(parsed, decided, hr) ==
            IF parsed.raised THEN [raised |-> TRUE, problem |-> "", severity |-> ""]
            ELSE IF hr.ok
            THEN [raised |-> FALSE, problem |-> hr.msg, severity |-> hr.sev]
            ELSE IF DOMAIN parsed.rows # {} /\ decided.ok
            THEN [raised |-> FALSE, problem |-> decided.msg, severity |-> decided.sev]
            ELSE [raised |-> FALSE, problem |-> "Normal", severity |-> "informational"]
        decide(parsed) ==
            result(parsed, snmp_decide_message_from_rows(parsed.rows), snmp_hr_errorstate(hrvals))
    IN  decide(snmp_alert_rows(vbs))

\* process_snmp_alerts: [raised, problem, severity]
snmp_process_snmp_alerts(vbs, hrvals) ==
    LET result(parsed, decided, hr) ==
            IF parsed.raised THEN [raised |-> TRUE, problem |-> "", severity |-> ""]
            ELSE IF DOMAIN parsed.rows # {} /\ decided.ok
            THEN [raised |-> FALSE, problem |-> decided.msg, severity |-> decided.sev]
            ELSE IF hr.ok
            THEN [raised |-> FALSE, problem |-> hr.msg, severity |-> hr.sev]
            ELSE [raised |-> FALSE, problem |-> "Normal", severity |-> "informational"]
        decide(parsed) ==
            result(parsed, snmp_decide_message_from_rows(parsed.rows), snmp_hr_errorstate(hrvals))
    IN  decide(snmp_alert_rows(vbs))


\* ------------------------------------------------------------------------
\* Component/printerError/hp_ews_active_alerts.py (the legacy SNMP alert
\* script)
\* ------------------------------------------------------------------------
hpews_printer_error_obj(msg, sev) ==
    IF msg = "Normal" THEN [problem |-> "Ready", severity |-> "informational"]
    ELSE IF msg = "Offline" THEN [problem |-> "Offline", severity |-> "critical"]
    ELSE LET s == py_lower(sev)
         IN  [problem |-> msg,
              severity |-> IF s \in {"informational", "warning", "critical"} THEN s ELSE "warning"]

hpews_to_text(val) ==
    CASE val.t = "int" -> py_str(val.v)
      [] val.t \in {"str", "bytes"} -> val.v
      [] OTHER -> "?"

hpews_severity_tag(row) ==
    IF ~ Has(row, COL_SEVERITY) THEN "other"
    ELSE LET i == row[COL_SEVERITY]
         IN  IF i = 3 THEN "critical"
             ELSE IF i \in {4, 5, 6} THEN "warning"
             ELSE IF i = 2 THEN "unknown"
             ELSE "other"

GROUP_MAP ==
    (5 :> "generalPrinter") @@ (6 :> "cover") @@ (7 :> "localization") @@ (8 :> "input") @@
    (9 :> "output") @@ (10 :> "marker") @@ (11 :> "markerSupplies") @@
    (12 :> "markerColorant") @@ (13 :> "mediaPath") @@ (14 :> "channel") @@
    (15 :> "interpreter") @@ (16 :> "consoleDisplayBuffer") @@ (17 :> "consoleLights") @@
    (18 :> "alert")

CODE_MSG ==
    (3 :> "Cover open") @@ (4 :> "Cover closed") @@ (8 :> "Paper jam") @@
    (807 :> "Input tray low") @@ (808 :> "Input tray empty") @@ (903 :> "Output tray full") @@
    (1001 :> "Fuser under temperature") @@ (1002 :> "Fuser over temperature") @@
    (1101 :> "Toner empty") @@ (1104 :> "Toner almost empty") @@
    (1109 :> "Waste toner full") @@ (1801 :> "Alert removed")

\* _clean_desc: "" stands for None
hpews_clean_desc(desc) ==
    LET clean(d, low) ==
            IF desc = "" THEN ""
            ELSE IF d = "" \/ d \in {"?", "??", "\"\"", "''"} THEN ""
            ELSE IF \E s \in SUPPRESS_PHRASES : py_in(s, low) THEN ""
            ELSE IF d \in DOMAIN HEB_EN THEN HEB_EN[d]
            ELSE d
        lowered(d) == clean(d, py_lower(d))
    IN  lowered(py_strip_chars(py_strip_chars(py_strip(desc), "\""), "'"))

\* _mk_msg(severity, group_id, code_val, desc, group_idx): "" stands for None
hpews_mk_msg(row) ==
    LET msg(d, g) ==
        IF Has(row, COL_CODE) /\ row[COL_CODE] \in DOMAIN CODE_MSG
        THEN LET base == CODE_MSG[row[COL_CODE]]
             IN  IF row[COL_CODE] = 1801 THEN ""
                 ELSE IF Get(row, COL_GROUP, 0) = 6 /\ Get(row, COL_GROUPIDX, 0) > 0
                         /\ py_in("Cover", base)
                 THEN base \o " (Cover #" \o py_str(row[COL_GROUPIDX]) \o ")"
                 ELSE base
        ELSE IF d # "" THEN d
        ELSE IF g = "cover" THEN "Cover issue"
        ELSE IF g = "mediaPath" THEN "Paper path issue"
        ELSE IF g = "markerSupplies" THEN "Supply issue"
        ELSE IF g = "input" THEN "Input tray issue"
        ELSE IF g = "output" THEN "Output tray issue"
        ELSE IF g = "marker" THEN "Marker issue"
        ELSE ""
    IN  msg(hpews_clean_desc(Get(row, COL_DESC, "")),
            IF Has(row, COL_GROUP) /\ row[COL_GROUP] \in DOMAIN GROUP_MAP
            THEN GROUP_MAP[row[COL_GROUP]] ELSE "")

\* _parse_alert_oid: [ok, col, inst]
hpews_parse_alert_oid(oid) ==
    LET base == ALERT_TABLE_ROOT
        parse(s, rest) ==
            IF ~ py_startswith(s, base \o ".") THEN [ok |-> FALSE, col |-> "", inst |-> ""]
            ELSE IF Len(rest) < 3 THEN [ok |-> FALSE, col |-> "", inst |-> ""]
            ELSE [ok |-> TRUE, col |-> rest[1], inst |-> rest[2] \o "." \o rest[3]]
        split(s) == parse(s, py_split_dot(SubSeq(s, Len(base) + 2, Len(s))))
    IN  split(py_strip_chars(oid, "."))

\* _hr_bits_as_flags(b): the names of the bits set, most significant bit of
\* the first byte first
hpews_hr_bits_as_flags(b) ==
    { HR_BITS[k][1] : k \in { j \in 1..Len(HR_BITS) :
        LET bitpos == HR_BITS[j][2]
            byteno == (bitpos \div 8) + 1
            i == 7 - (bitpos % 8)
        IN  byteno <= Len(b) /\ (b[byteno] \div Pow2(i)) % 2 = 1 } }

FlagPriority ==
    << "doorOpen", "jammed", "noPaper", "noToner", "markerSupplyMissing", "outputFull",
       "inputTrayEmpty", "serviceRequested", "offline", "lowPaper", "lowToner",
       "outputNearFull", "overduePreventMaint", "inputTrayMissing", "outputTrayMissing" >>

FlagLabel ==
    [ doorOpen |-> "Door open", jammed |-> "Paper jam", noPaper |-> "No paper",
      noToner |-> "No toner", markerSupplyMissing |-> "Marker supply missing",
      outputFull |-> "Output bin full", inputTrayEmpty |-> "Input tray empty",
      serviceRequested |-> "Service requested", offline |-> "Printer offline",
      lowPaper |-> "Low paper", lowToner |-> "Low toner",
      outputNearFull |-> "Output bin near full",
      overduePreventMaint |-> "Preventive maintenance overdue",
      inputTrayMissing |-> "Input tray missing", outputTrayMissing |-> "Output tray missing" ]

\* _flags_to_english: "" stands for None
hpews_flags_to_english(flags) ==
    LET hits == { k \in 1..Len(FlagPriority) : FlagPriority[k] \in flags }
    IN  IF hits = {} THEN ""
        ELSE FlagLabel[FlagPriority[CHOOSE k \in hits : \A o \in hits : k <= o]]

hpews_flags_severity(flags) ==
    LET critical == { "doorOpen", "jammed", "noPaper", "noToner", "markerSupplyMissing",
                      "outputFull", "inputTrayEmpty", "serviceRequested", "offline" }
        warning == { "lowPaper", "lowToner", "outputNearFull", "overduePreventMaint",
                     "inputTrayMissing", "outputTrayMissing" }
    IN  IF flags \cap critical # {} THEN "critical"
        ELSE IF flags \cap warning # {} THEN "warning"
        ELSE "informational"

\* _hr_errorstate_msg over the values snmp.get returns for indices 1..4
RECURSIVE hpews_hr_errorstate_msg(_)
hpews_hr_errorstate_msg(vals) ==
    IF vals = << >> THEN NoMsg
    ELSE LET fromFlags(val, flags) ==
                 IF val.t = "octets" /\ Len(val.v) > 0 /\ hpews_flags_to_english(flags) # ""
                 THEN Msg(hpews_flags_to_english(flags), hpews_flags_severity(flags))
                 ELSE hpews_hr_errorstate_msg(Tail(vals))
         IN  fromFlags(Head(vals), hpews_hr_bits_as_flags(Head(vals).v))

\* one column of one varbind into its row dict (the loop body of _fetch_alerts)
hpews_set_column(rowdict, col, value) ==
    IF col \in {COL_SEVERITY, COL_TRAINING, COL_GROUP, COL_GROUPIDX, COL_LOCATION, COL_CODE, COL_TIME}
    THEN LET put(n) == IF n.ok THEN (col :> n.v) @@ rowdict ELSE rowdict
         IN  put(py_int_value(value))
    ELSE IF col = COL_DESC
    THEN LET put(txt) == IF txt # "" THEN (col :> txt) @@ rowdict ELSE rowdict
         IN  put(py_strip(hpews_to_text(value)))
    ELSE rowdict

\* the rows dict _fetch_alerts builds, keyed by the instance string "d.i"
RECURSIVE hpews_rows(_)
hpews_rows(vbs) ==
    IF vbs = << >> THEN << >>
    ELSE LET step(before, vb, parsed) ==
                 IF ~ parsed.ok THEN before
                 ELSE (parsed.inst :> hpews_set_column(Get(before, parsed.inst, << >>),
                                                       parsed.col, vb.value)) @@ before
         IN  step(hpews_rows(SubSeq(vbs, 1, Len(vbs) - 1)), vbs[Len(vbs)],
                  hpews_parse_alert_oid(vbs[Len(vbs)].oid))

\* sorted(rows.items()): the keys are str, compared as str
RECURSIVE SortedStrKeys(_)
SortedStrKeys(S) ==
    IF S = {} THEN << >>
    ELSE LET m == CHOOSE a \in S : \A b \in S \ {a} : py_str_less(a, b)
         IN  << m >> \o SortedStrKeys(S \ {m})

RECURSIVE hpews_first_msg(_, _, _)
hpews_first_msg(ordered, rows, severity_pick) ==
    IF ordered = << >> THEN ""
    ELSE LET pick(r, msg) ==
                 IF hpews_severity_tag(r) = severity_pick /\ msg # ""
                 THEN msg
                 ELSE hpews_first_msg(Tail(ordered), rows, severity_pick)
         IN  pick(rows[Head(ordered)], hpews_mk_msg(rows[Head(ordered)]))

\* _fetch_alerts on what the walk (and, if reached, the hr gets) return
hpews_fetch_alerts(vbs, hrvals) ==
    LET first(msgs, p) ==
            Msg(msgs[p], IF SeverityPicks[p] = "critical" THEN "critical" ELSE "warning")
        decide(msgs, hr) ==
            IF \E p \in 1..4 : msgs[p] # ""
            THEN first(msgs, CHOOSE q \in 1..4 : msgs[q] # "" /\ \A o \in 1..(q - 1) : msgs[o] = "")
            ELSE IF hr.ok THEN hr
            ELSE Msg("Normal", "informational")
        scan(rows) ==
            decide([p \in 1..4 |->
                       hpews_first_msg(SortedStrKeys(DOMAIN rows), rows, SeverityPicks[p])],
                   hpews_hr_errorstate_msg(hrvals))
    IN  scan(hpews_rows(vbs))


\* ------------------------------------------------------------------------
\* adapters/snmp_client.py and core/printers.py
\* ------------------------------------------------------------------------
\* The varbinds of a device's alert table in the order of a walk: column by
\* column, and within a column the instances in OID order.
WalkColumns == << COL_SEVERITY, COL_GROUP, COL_GROUPIDX, COL_CODE, COL_DESC >>
InstOrder == << "1.1", "1.2", "1.10", "8.1" >>

RECURSIVE SeqConcat(_)
SeqConcat(ss) == IF ss = << >> THEN << >> ELSE Head(ss) \o SeqConcat(Tail(ss))

DeviceWalk(table) ==
    SeqConcat([c \in 1..Len(WalkColumns) |->
        SeqConcat([k \in 1..Len(InstOrder) |->
            IF InstOrder[k] \in DOMAIN table /\ WalkColumns[c] \in DOMAIN table[InstOrder[k]]
            THEN << [oid |-> ALERT_TABLE_ROOT \o "." \o WalkColumns[c] \o "." \o InstOrder[k],
                     value |-> table[InstOrder[k]][WalkColumns[c]]] >>
            ELSE << >>])])

\* walk_oid with puresnmp's async walk: a timeout is logged and nothing is
\* yielded; any other error of the walk leaves asyncio.run uncaught
snmpclient_walk_oid(transport, vbs) ==
    IF transport = "ok" THEN [raised |-> FALSE, vbs |-> vbs]
    ELSE IF transport = "timeout" THEN [raised |-> FALSE, vbs |-> << >>]
    ELSE [raised |-> TRUE, vbs |-> << >>]

BAD_IPS == { "", "-", "n/a", "na", "none", "0.0.0.0", "null" }

\* norm_ip(prn) of an entity whose address is kept under "Printer IP"
norm_ip(prn) == IF prn.ip # "" THEN py_strip(prn.ip) ELSE ""

is_good_ip(ip) == ip # "" /\ py_lower(py_strip(ip)) \notin BAD_IPS

\* ------------------------------------------------------------------------
\* plugins/printerError/snmp_active_alerts.py
\* ------------------------------------------------------------------------
\* _process_one_printer against a device: [raised, problem, severity]
snmpplugin_process_one_printer(ip, dev) ==
    LET process(w, h) ==
            IF ~ is_good_ip(ip)
            THEN [raised |-> FALSE, problem |-> "Normal", severity |-> "informational"]
            ELSE IF w.raised THEN [raised |-> TRUE, problem |-> "", severity |-> ""]
            ELSE snmp_process_snmp_alerts(w.vbs, h.vbs)
    IN  process(snmpclient_walk_oid(dev.transport, DeviceWalk(dev.table)),
                snmpclient_walk_oid(dev.transport, dev.hr))

\* the printerError the try/except of main writes for one printer
snmpplugin_printerError(ip, dev) ==
    LET guarded(r) ==
            IF r.raised THEN [problem |-> "Offline", severity |-> "critical"]
            ELSE [problem |-> r.problem, severity |-> r.severity]
    IN  guarded(snmpplugin_process_one_printer(ip, dev))

\* ------------------------------------------------------------------------
\* hp_ews_active_alerts.py: _enrich_item
\* ------------------------------------------------------------------------
\* the printerError _enrich_item writes: the walk raises on any transport
\* failure, and asyncio.wait_for raises TimeoutError
hpews_printerError(ip, dev) ==
    IF ip = "" \/ ip = "-" THEN hpews_printer_error_obj("Normal", "informational")
    ELSE IF dev.transport # "ok" THEN hpews_printer_error_obj("Offline", "critical")
    ELSE LET obj(r) == hpews_printer_error_obj(r.msg, r.sev)
         IN  obj(hpews_fetch_alerts(DeviceWalk(dev.table), dev.hr))

\* ------------------------------------------------------------------------
\* adapters/ledm_client.py
\* An XML element is [tag, text, kids]; kids are elements in document order.
\* "" stands for None where the code has Optional[str].
\* ------------------------------------------------------------------------
SEVERITY_ORDER ==
    [ CRITICAL |-> 3, STRICTERROR |-> 3, ERROR |-> 3, WARNING |-> 2, STRICTWARNING |-> 2, INFO |-> 1 ]

Leaf(tag, text) == [tag |-> tag, text |-> text, kids |-> << >>]
Elem(tag, kids) == [tag |-> tag, text |-> "", kids |-> kids]

NoXml == [tag |-> "<None>", text |-> "", kids |-> << >>]

\* root.iter(): the element and its descendants in document order
RECURSIVE XmlIter(_)
XmlIter(el) ==
    << el >> \o SeqConcat([i \in 1..Len(el.kids) |-> XmlIter(el.kids[i])])

\* _iter_elems_by_local(root, [name]): the elements of that name, in order
ledm_iter_elems_by_local(root, name) ==
    IF root = NoXml THEN << >>
    ELSE SelectSeq(XmlIter(root), LAMBDA el : el.tag = name)

\* _text_of_first(root, candidates)
ledm_text_of_first(root, candidates) ==
    IF root = NoXml THEN ""
    ELSE LET first(it, hits) ==
                 IF hits = {} THEN ""
                 ELSE py_strip(it[CHOOSE i \in hits : \A o \in hits : i <= o].text)
             find(it) ==
                 first(it, { i \in 1..Len(it) :
                               it[i].tag \in candidates /\ py_strip(it[i].text) # "" })
         IN  find(XmlIter(root))

ledm_triage_three(sev) ==
    LET triage(s, low) ==
            IF py_isdigit(s)
            THEN (IF py_int(s) >= 6 THEN "critical" ELSE IF py_int(s) >= 3 THEN "warning"
                  ELSE "informational")
            ELSE IF low \in {"critical", "fatal", "stricterror", "error", "severe"} THEN "critical"
            ELSE IF low \in {"warning", "strictwarning", "warn", "attention"} THEN "warning"
            ELSE "informational"
        lowered(s) == triage(s, py_lower(s))
    IN  lowered(py_strip(sev))

NoBest == [found |-> FALSE, code |-> "", desc |-> "", sev |-> ""]

\* the loop of best_event_from_table over the first n Event elements:
\* [best, best_rank]
RECURSIVE ledm_event_scan(_, _)
ledm_event_scan(evs, n) ==
    IF n = 0 THEN [best |-> NoBest, best_rank |-> -1]
    ELSE LET keep(acc, ev, sev_raw, rank) ==
                 IF rank >= acc.best_rank
                 THEN [best |-> [found |-> TRUE,
                                 code |-> ledm_text_of_first(ev, {"Code", "EventCode", "ID", "ErrorCode"}),
                                 desc |-> ledm_text_of_first(ev, {"Description", "EventDescription",
                                                                  "Name", "Reason"}),
                                 sev |-> ledm_triage_three(sev_raw)],
                       best_rank |-> rank]
                 ELSE acc
             ranked(acc, ev, sev_raw) ==
                 keep(acc, ev, sev_raw,
                      IF sev_raw \in DOMAIN SEVERITY_ORDER THEN SEVERITY_ORDER[sev_raw] ELSE -1)
         IN  ranked(ledm_event_scan(evs, n - 1), evs[n],
                    py_upper(py_strip(ledm_text_of_first(evs[n], {"Severity"}))))

ledm_best_event_from_table(event_root) ==
    LET best(evs) == ledm_event_scan(evs, Len(evs)).best
    IN  best(ledm_iter_elems_by_local(event_root, "Event"))

ledm_problem_from_status(status_root) ==
    LET mapping == [ ready |-> "Ready", processing |-> "Processing", warmup |-> "Warming up",
                     attention |-> "Needs attention", interventionrequired |-> "Needs attention",
                     error |-> "Error", idle |-> "Idle", sleep |-> "Sleep" ]
        problem(s, cat) ==
            IF s # "" THEN s
            ELSE IF cat # "" THEN (IF cat \in DOMAIN mapping THEN mapping[cat]
                                   ELSE py_upper(CharAt(cat, 1)) \o SubSeq(cat, 2, Len(cat)))
            ELSE ""
    IN  problem(ledm_text_of_first(status_root,
                    {"LocString", "StatusString", "StatusMessage", "Reason", "DetailedReason", "State"}),
                py_lower(py_strip(ledm_text_of_first(status_root, {"StatusCategory"}))))

ALERT_SEV_RANK ==
    [ CRITICAL |-> 3, ERROR |-> 3, WARNING |-> 2, INFO |-> 1, STRICTERROR |-> 3, STRICTWARNING |-> 2 ]

RECURSIVE ledm_alert_scan(_, _)
ledm_alert_scan(alerts, n) ==
    IF n = 0 THEN [best |-> NoBest, best_score |-> -1]
    ELSE LET keep(acc, a, sev_raw, score) ==
                 IF score >= acc.best_score
                 THEN [best |-> [found |-> TRUE,
                                 code |-> ledm_text_of_first(a, {"ProductStatusAlertID", "StringId",
                                                                 "ID", "Code"}),
                                 desc |-> ledm_text_of_first(a, {"AlertDetailsUserAction", "Description",
                                                                 "Name", "Reason"}),
                                 sev |-> ledm_triage_three(sev_raw)],
                       best_score |-> score]
                 ELSE acc
             scored(acc, a, sev_raw) ==
                 keep(acc, a, sev_raw,
                      IF sev_raw \in DOMAIN ALERT_SEV_RANK THEN ALERT_SEV_RANK[sev_raw] ELSE 0)
             raw(acc, a, sev0) ==
                 scored(acc, a, py_upper(py_strip(IF sev0 = "" THEN "Info" ELSE sev0)))
         IN  raw(ledm_alert_scan(alerts, n - 1), alerts[n],
                 ledm_text_of_first(alerts[n], {"Severity"}))

ledm_best_alert_from_status(status_root) ==
    LET best(alerts) == ledm_alert_scan(alerts, Len(alerts)).best
    IN  best(ledm_iter_elems_by_local(status_root, "Alert"))

ledm_derive_severity_from_problem(problem) ==
    LET derive(p) ==
            IF problem = "" THEN "informational"
            ELSE IF \E k \in {"jam", "door", "open", "cover", "fault", "failure", "error", "empty",
                              "replace"} : py_in(k, p) THEN "critical"
            ELSE IF \E k \in {"low", "depleted", "almost", "calibrat", "warming", "busy", "sleep",
                              "power saver", "attention"} : py_in(k, p) THEN "warning"
            ELSE "informational"
    IN  derive(py_lower(problem))

\* normalize_problem_and_severity: the problem None is ""
ledm_normalize_problem_and_severity(problem, severity) ==
    LET normalize(p, low) ==
            IF py_in("unknown", low) THEN << "", "informational" >>
            ELSE IF py_in("acknowledgeconsumablestate", low) THEN << "Ready", "informational" >>
            ELSE IF (py_in("ready", low) /\ ~ py_in("not ready", low) /\ ~ py_in("unready", low))
                    \/ py_in("מוכן", p) THEN << "Ready", "informational" >>
            ELSE IF py_in("sleep", low) \/ py_in("inpowersave", low) \/ py_in("שינה", p)
                 THEN << "Sleeping", "informational" >>
            ELSE << problem, severity >>
        lowered(p) == normalize(p, py_lower(p))
    IN  lowered(py_strip(problem))

\* the (problem, severity) before normalisation: lines 174-178, and
\* process_printer of hp_ledm_status.py
ledm_raw_problem_and_severity(status_root, events_root) ==
    LET severity(ev, al, problem) ==
            << problem,
               IF ev.sev # "" THEN ev.sev
               ELSE IF al.sev # "" THEN al.sev
               ELSE ledm_derive_severity_from_problem(problem) >>
        problem(ev, st_problem, al) ==
            severity(ev, al,
                     IF ev.desc # "" THEN ev.desc
                     ELSE IF al.desc # "" THEN al.desc
                     ELSE IF st_problem # "" THEN st_problem
                     ELSE "Unknown")
    IN  problem(ledm_best_event_from_table(events_root),
                ledm_problem_from_status(status_root),
                ledm_best_alert_from_status(status_root))

\* get_ledm_problem_and_severity on the two documents fetch_ledm_roots returns
ledm_get_ledm_problem_and_severity(status_root, events_root) ==
    LET result(n) ==
            [problem |-> IF n[1] = "" THEN "Normal" ELSE n[1],
             severity |-> IF n[2] = "" THEN "informational" ELSE n[2]]
        normalized(raw) == result(ledm_normalize_problem_and_severity(raw[1], raw[2]))
    IN  normalized(ledm_raw_problem_and_severity(status_root, events_root))

\* plugins/printerError/ledm_active_alerts.py: the printerError main writes;
\* _try_get swallows every transport error, so the roots are None instead
ledmplugin_printerError(ip, dev) ==
    IF ~ is_good_ip(ip) THEN [problem |-> "Normal", severity |-> "informational"]
    ELSE ledm_get_ledm_problem_and_severity(IF dev.transport # "ok" THEN NoXml ELSE dev.status,
                                            IF dev.transport # "ok" THEN NoXml ELSE dev.events)

\* hp_ledm_status.py: the printerError run() writes (lines 432-448); the
\* problem None is written as null
hpledm_printerError(dev) ==
    LET result(n) ==
            [problem |-> IF n[1] = "" THEN None ELSE n[1],
             severity |-> IF n[2] = "" THEN "informational" ELSE n[2]]
        normalized(raw) == result(ledm_normalize_problem_and_severity(raw[1], raw[2]))
    IN  normalized(ledm_raw_problem_and_severity(
                       IF dev.transport # "ok" THEN NoXml ELSE dev.status,
                       IF dev.transport # "ok" THEN NoXml ELSE dev.events))

\* ------------------------------------------------------------------------
\* adapters/ews_alerts.py (Component/printerError/hp_snmp_enricher.py carries
\* the same functions, with the catalog held in a module global).
\* An alert is [severity, status_code, description]; a catalog maps a code to
\* [status, info] as _load_code_catalog leaves it.
\* ------------------------------------------------------------------------
\* the length of the match of \b[A-Z]\d-\d{3,5}\b that starts at position i,
\* or 0: the digit run is greedy and a word boundary has to follow it
CodeReDigits(s, i) ==
    LET run == { k \in 0..6 : \A j \in 1..k : IsDigitChar(CharAt(s, i + 2 + j)) }
    IN  CHOOSE k \in run : \A o \in run : o <= k

CodeReMatchAt(s, i) ==
    LET k == CodeReDigits(s, i)
    IN  IF /\ IsUpperChar(CharAt(s, i))
           /\ (i = 1 \/ ~ IsWordChar(CharAt(s, i - 1)))
           /\ IsDigitChar(CharAt(s, i + 1))
           /\ CharAt(s, i + 2) = "-"
           /\ k \in 3..5
           /\ (i + 2 + k = Len(s) \/ ~ IsWordChar(CharAt(s, i + 3 + k)))
        THEN 3 + k
        ELSE 0

\* CODE_RE.search(s): the text of the leftmost match, "" when there is none
CODE_RE_search(s) ==
    LET hits == { i \in 1..Len(s) : CodeReMatchAt(s, i) > 0 }
    IN  IF hits = {} THEN ""
        ELSE LET i == CHOOSE h \in hits : \A o \in hits : h <= o
             IN  SubSeq(s, i, i + CodeReMatchAt(s, i) - 1)

\* a triage that hands the device's token on as it came
ews_triage_three_raw(sev) == sev

ews_triage_three(sev) ==
    LET triage(s, low) ==
            IF py_isdigit(s)
            THEN (IF py_int(s) >= 6 THEN "critical" ELSE IF py_int(s) >= 3 THEN "warning"
                  ELSE "informational")
            ELSE IF low \in {"critical", "fatal", "severe", "error"} THEN "critical"
            ELSE IF low \in {"attention", "warning", "warn"} THEN "warning"
            ELSE "informational"
        lowered(s) == triage(s, py_lower(s))
    IN  lowered(py_strip(sev))

ews_severity_rank(sev) ==
    LET rank(s, low) ==
            IF py_isdigit(s) THEN py_int(s)
            ELSE IF low \in {"fatal", "critical"} THEN 9
            ELSE IF low \in {"error", "severe"} THEN 6
            ELSE IF low = "warning" THEN 3
            ELSE IF low = "attention" THEN 5
            ELSE IF low \in {"info", "informational"} THEN 1
            ELSE 0
        lowered(s) == rank(s, py_lower(s))
    IN  lowered(py_strip(sev))

ews_catalog_status_to_rank(status) ==
    LET rank(s) ==
            IF s = "CRITICAL" THEN 9
            ELSE IF s = "ATTENTION" THEN 5
            ELSE IF s = "INFO" THEN 1
            ELSE 0
    IN  rank(py_upper(py_strip(status)))

\* the sort key of _pick_alert: (rank, has_code)
ews_rank(a, catalog) ==
    LET key(r0) ==
            << IF r0 = 0 /\ a.status_code # "" /\ Has(catalog, a.status_code)
               THEN ews_catalog_status_to_rank(catalog[a.status_code].status)
               ELSE r0,
               IF a.status_code # "" THEN 1 ELSE 0 >>
    IN  key(ews_severity_rank(a.severity))

KeyLess(k1, k2) == k1[1] < k2[1] \/ (k1[1] = k2[1] /\ k1[2] < k2[2])

\* pool.sort(key=rank, reverse=True)[0]: the sort is stable, so the top is
\* the first alert in list order whose key no other alert exceeds
ews_top_index(alerts, catalog) ==
    LET top(keys) ==
            CHOOSE i \in 1..Len(alerts) :
                /\ \A j \in 1..Len(alerts) : ~ KeyLess(keys[i], keys[j])
                /\ \A j \in 1..(i - 1) : KeyLess(keys[j], keys[i])
    IN  top([i \in 1..Len(alerts) |-> ews_rank(alerts[i], catalog)])

\* _pick_alert: [code, desc, base_sev]
ews_pick_alert(alerts, catalog) ==
    IF alerts = << >> THEN [code |-> "", desc |-> "", base_sev |-> "informational"]
    ELSE LET picked(top, desc, code) ==
                 [code |-> code, desc |-> desc,
                  base_sev |-> ews_triage_three(IF code # "" /\ Has(catalog, code)
                                                THEN catalog[code].status
                                                ELSE top.severity)]
             resolved(top, desc) ==
                 picked(top, desc,
                        IF top.status_code # "" THEN top.status_code ELSE CODE_RE_search(desc))
             described(top) == resolved(top, py_strip(top.description))
         IN  described(alerts[ews_top_index(alerts, catalog)])

\* a labelling that looks at the description keywords only
ews_short_label_for_keywords(code, desc, catalog) ==
    LET label(d) ==
            [label |-> IF d = "" THEN "Normal"
                       ELSE IF py_in("door", d) THEN "Door open"
                       ELSE IF py_in("jam", d) THEN "Paper jam"
                       ELSE "Check printer",
             status |-> ""]
    IN  label(py_lower(py_strip(desc)))

\* _short_label_for: [label, status]; the status None is ""
ews_short_label_for(code, desc, catalog) ==
    LET L(x) == [label |-> x, status |-> ""]
        label(d) ==
        IF code # "" /\ Has(catalog, code)
        THEN [label |-> IF catalog[code].info # "" THEN catalog[code].info ELSE "Check printer",
              status |-> catalog[code].status]
        ELSE IF d = "" THEN L("Normal")
        ELSE IF py_in("door", d) THEN L("Door open")
        ELSE IF py_in("jam", d) THEN L("Paper jam")
        ELSE IF py_in("toner", d) /\ py_in("detect", d) THEN L("Toner not detected")
        ELSE IF py_in("toner", d) /\ (py_in("empty", d) \/ py_in("end", d)) THEN L("Toner empty")
        ELSE IF (py_in("drum", d) \/ py_in("imaging unit", d)) /\ py_in("not", d) /\ py_in("install", d)
             THEN L("Drum not installed")
        ELSE IF (py_in("drum", d) \/ py_in("imaging unit", d)) /\ (py_in("end", d) \/ py_in("replace", d))
             THEN L("Replace drum now")
        ELSE IF py_in("transfer", d) THEN L("Transfer roller fault")
        ELSE IF py_in("scanner", d) THEN L("Scanner error")
        ELSE IF py_in("fuser", d) THEN L("Fuser error")
        ELSE L("Check printer")
    IN  label(py_lower(py_strip(desc)))

\* _normalize_problem_and_severity: [label, forced]; forced None is ""
ews_normalize_problem_and_severity(problem) ==
    LET normalize(p, low) ==
            IF p = "" \/ low = "normal" THEN [label |-> "Ready", forced |-> "informational"]
            ELSE IF py_in("sleep", low) THEN [label |-> "Sleeping", forced |-> "informational"]
            ELSE [label |-> p, forced |-> ""]
        lowered(p) == normalize(p, py_lower(p))
    IN  lowered(py_strip(problem))

\* get_ews_problem_and_severity on the alerts _fetch_ews_alerts returns and
\* the catalog _load_code_catalog returns
ews_get_ews_problem_and_severity(alerts, catalog) ==
    LET result(pk, nm, sev) ==
            [code |-> pk.code,
             problem |-> IF nm.label = "" THEN "Ready" ELSE nm.label,
             severity |-> IF sev = "" THEN "informational" ELSE sev]
        normalized(pk, sl, nm) ==
            result(pk, nm,
                   IF nm.forced # "" THEN nm.forced
                   ELSE IF sl.status # "" THEN ews_triage_three(sl.status)
                   ELSE pk.base_sev)
        labelled(pk, sl) == normalized(pk, sl, ews_normalize_problem_and_severity(sl.label))
        picked(pk) == labelled(pk, ews_short_label_for(pk.code, pk.desc, catalog))
    IN  picked(ews_pick_alert(alerts, catalog))

\* hp_snmp_enricher.py _enrich_item, the try block: the printerError fields
\* it sets from the alerts _fetch_alerts returns
hpenr_printerError(alerts, catalog) ==
    LET normalized(pk, sl, nm) ==
            [code |-> pk.code,
             problem |-> nm.label,
             severity |-> IF nm.forced # "" THEN nm.forced
                          ELSE IF sl.status # "" THEN ews_triage_three(sl.status)
                          ELSE pk.base_sev]
        labelled(pk, sl) == normalized(pk, sl, ews_normalize_problem_and_severity(sl.label))
        picked(pk) == labelled(pk, ews_short_label_for(pk.code, pk.desc, catalog))
    IN  picked(ews_pick_alert(alerts, catalog))

\* ------------------------------------------------------------------------
\* Devices: what a probe can be answered with
\* ------------------------------------------------------------------------
MaxRows == 2

Row(sev, code, desc, asBytes) ==
    (IF sev # 0 THEN COL_SEVERITY :> IntV(sev) ELSE << >>) @@
    (IF code # 0 THEN COL_CODE :> IntV(code) ELSE << >>) @@
    (IF desc # "" THEN COL_DESC :> (IF asBytes THEN BytesV(desc) ELSE StrV(desc)) ELSE << >>)

RowShapes ==
    { << 3, 0, "Door open" >>, << 4, 0, "Tray 2 empty" >>, << 3, 8, "" >>,
      << 4, 8, "Sleep mode on" >>, << 4, 0, "Sleep mode on" >>,
      << 1, 0, "Sleep mode on - press OK" >>, << 3, 0, "מושהה" >>, << 0, 0, "Toner low" >> }

InstSets == { S \in SUBSET { InstOrder[k] : k \in 1..Len(InstOrder) } : Cardinality(S) <= MaxRows }

AlertTables(asBytes) ==
    UNION { [S -> { Row(sh[1], sh[2], sh[3], asBytes) : sh \in RowShapes }] : S \in InstSets }

HrValues == { << >>, << IntV(0) >>, << IntV(16) >>, << IntV(64) >>,
              << OctetsV(<<0, 0>>) >>, << OctetsV(<<8, 0>>) >>, << OctetsV(<<0, 32>>) >> }

SnmpDevices ==
    { [ip |-> "10.0.0.5", transport |-> "ok", table |-> t, hr |-> << >>] :
        t \in AlertTables(FALSE) \cup AlertTables(TRUE) }
    \cup { [ip |-> "10.0.0.5", transport |-> "ok", table |-> t, hr |-> h] :
        t \in { u \in AlertTables(FALSE) : Cardinality(DOMAIN u) <= 1 }, h \in HrValues }
    \cup { [ip |-> i, transport |-> tr, table |-> << >>, hr |-> << >>] :
        i \in {"-", "", "10.0.0.5"}, tr \in {"timeout", "oserror"} }
    \cup { [ip |-> i, transport |-> "ok", table |-> << >>, hr |-> << >>] : i \in {"-", ""} }

\* LEDM documents
MaxEvents == 2

XmlRecord(tag, sev, desc) ==
    Elem(tag, (IF sev # "" THEN << Leaf("Severity", sev) >> ELSE << >>) \o
              (IF desc # "" THEN << Leaf("Description", desc) >> ELSE << >>))

EventShapes ==
    { << "Critical", "Paper jam" >>, << "Error", "Door open" >>, << "Warning", "Toner low" >>,
      << "Info", "Sleep mode" >>, << "Fatal", "Fuser failure" >>, << "", "Normal" >>, << "Warning", "" >> }

AlertShapes ==
    { << "Error", "Jam in tray 2" >>, << "Critical", "Cover open" >>,
      << "Warning", "Cartridge low" >>, << "", "Unknown supply" >> }

SeqsUpTo(S, n) == UNION { [1..k -> S] : k \in 0..n }

EventDocs ==
    { Elem("EventTable", [i \in 1..Len(q) |-> XmlRecord("Event", q[i][1], q[i][2])]) :
        q \in SeqsUpTo(EventShapes, MaxEvents) }

StatusDocs ==
    { Elem("ProductStatusDyn",
           (IF cat # "" THEN << Leaf("StatusCategory", cat) >> ELSE << >>) \o
           [i \in 1..Len(q) |-> XmlRecord("Alert", q[i][1], q[i][2])]) :
        cat \in {"", "ready", "sleep"}, q \in SeqsUpTo(AlertShapes, MaxEvents) }

LedmDevices ==
    { [ip |-> "10.0.0.6", transport |-> "ok", status |-> st, events |-> ev] :
        st \in StatusDocs, ev \in { NoXml, Elem("EventTable", << >>) } }
    \cup { [ip |-> "10.0.0.6", transport |-> "ok", status |-> st, events |-> ev] :
        st \in { NoXml, Elem("ProductStatusDyn", << Leaf("StatusCategory", "ready") >>),
                 Elem("ProductStatusDyn", << Leaf("StatusString", "Not ready") >>) },
        ev \in EventDocs }
    \cup { [ip |-> "10.0.0.6", transport |-> "timeout", status |-> NoXml, events |-> NoXml] }

\* EWS findings and code catalogs
MaxAlerts == 2

EwsAlert(sev, code, desc) == [severity |-> sev, status_code |-> code, description |-> desc]

EwsAlertShapes ==
    { EwsAlert("critical", "", "Front door is open"),
      EwsAlert("warning", "S2-4110", "Jam"),
      EwsAlert("unknown", "C1-1234", "Prepare new toner cartridge"),
      EwsAlert("unknown", "", "M1-5000 drum end soon"),
      EwsAlert("7", "U1-2320", "energy saver"),
      EwsAlert("info", "X9-99999", "scanner locked"),
      EwsAlert("error", "A1-00001", ""),
      EwsAlert("attention", "", "Sleep timer") }

CodeCatalog ==
    ("S2-4110" :> [status |-> "CRITICAL", info |-> "Paper jam inside machine"]) @@
    ("C1-1234" :> [status |-> "ATTENTION", info |-> "Toner low"]) @@
    ("M1-5000" :> [status |-> "INFO", info |-> ""]) @@
    ("U1-2320" :> [status |-> "INFO", info |-> "Sleep mode"])

EwsDevices ==
    { [ip |-> "10.0.0.7", transport |-> "ok", alerts |-> q, catalog |-> c] :
        q \in SeqsUpTo(EwsAlertShapes, MaxAlerts), c \in { << >>, CodeCatalog } }
    \cup { [ip |-> "10.0.0.7", transport |-> "timeout", alerts |-> << >>, catalog |-> CodeCatalog] }

\* ------------------------------------------------------------------------
\* The inventory document and one run of a script over it.
\* An entity is [ID, Type, ip, hasInfo, info]: info is the printerInfo dict,
\* hasInfo is FALSE while the entity has no printerInfo key.
\* ------------------------------------------------------------------------
NumEntities == 2

SNMP_TARGET_TYPES ==
    { "E60055", "E60155", "E72525", "M527", "SL-M3820ND", "SL-M3870FD", "MFP-P57750-XC",
      "MFC-L9570CDW", "MFC-L6900DW" }
LEDM_TARGET_TYPES == { "M402dn", "M404dn", "M426fdn", "M426fdw", "M477fnw", "M521dn" }
EWS_TARGET_TYPES == { "408dn", "MFP432" }
TONER_TARGET_TYPES ==
    { "M402dn", "M404dn", "M426fdn", "M426fdw", "M477fnw", "M521dn", "E60055", "E60155", "E72525",
      "M527", "SL-M3820ND", "SL-M3870FD", "MFP-P57750-XC", "408dn", "MFP432" }

\* core/printers.py matches_type
matches_type(prn, target_types) ==
    LET matches(typ) == typ # "" /\ typ \in { py_lower(t) : t \in target_types }
    IN  matches(py_lower(py_strip(prn.Type)))

\* _matches_type of toner-LaserJet.py and hp_snmp_enricher.py
legacy_matches_type(type_str, target_types) ==
    LET matches(t) ==
            /\ type_str # ""
            /\ \/ t \in target_types
               \/ \E x \in target_types : py_in(py_lower(x), py_lower(t))
    IN  matches(py_strip(type_str))

\* a printerInfo that is started afresh on every run
ensure_printer_info_fresh(prn) == << >>

\* core/printers.py ensure_printer_info: the dict the entity holds afterwards
ensure_printer_info(prn) == IF prn.hasInfo THEN prn.info ELSE << >>

\* d[k] = v on a dict
DictSet(d, k, v) == (k :> v) @@ d

\* a handler that stores its result under a new identity
WithInfo_renamed(prn, info) == [prn EXCEPT !.hasInfo = TRUE, !.info = info, !.ID = ""]

WithInfo(prn, info) == [prn EXCEPT !.hasInfo = TRUE, !.info = info]

\* what the address of an entity answers with when probed; o is how the
\* probe went: "ok", "timeout" (cut off by the timeout) or "error"
NetDevice(ip, o) ==
    LET first == (ip = "10.0.0.1")
    IN  [ ip |-> ip,
          transport |-> IF o = "ok" THEN "ok" ELSE IF o = "timeout" THEN "timeout" ELSE "oserror",
          table |-> IF first THEN ("1.1" :> Row(4, 0, "Door open", FALSE)) ELSE << >>,
          hr |-> << >>,
          status |-> Elem("ProductStatusDyn", << Leaf("StatusCategory", "ready") >>),
          events |-> IF first THEN Elem("EventTable", << XmlRecord("Event", "Warning", "Toner low") >>)
                     ELSE Elem("EventTable", << >>),
          alerts |-> IF first THEN << EwsAlert("warning", "S2-4110", "Jam") >> ELSE << >>,
          catalog |-> CodeCatalog,
          carts |-> << [cartridge |-> "Black", remaining_percent |-> "40%"] >>,
          codes |-> IF first THEN << "CF287A" >> ELSE << "CF259X" >>,
          toner_name |-> IF first THEN "MLT-D203L" ELSE "MLT-D204E" ]

\* str(e) of the exception a probe ends with: asyncio.TimeoutError carries
\* no message
ExcText(o) == IF o = "timeout" THEN "" ELSE "[Errno 113] No route to host"

\* the result of one handler: the entity as it leaves it, the entries it adds
\* to the run's failure list, whether an exception leaves the handler, and
\* the addresses it sent a probe to
Handled(prn, fails) == [raised |-> FALSE, prn |-> prn, failures |-> fails, probed |-> << >>]
Escaped(prn) == [raised |-> TRUE, prn |-> prn, failures |-> << >>, probed |-> << >>]
Sent(res, ip, reached) == IF reached THEN [res EXCEPT !.probed = << ip >>] ELSE res

\* one more probe counted for the address of a list of at most one
CountCalls(c, probed) ==
    IF probed = << >> THEN c ELSE DictSet(c, probed[1], Get(c, probed[1], 0) + 1)

\* plugins/printerError/snmp_active_alerts.py main, one iteration of the loop
\* over a selected printer
snmpplugin_main_iteration(prn, o) ==
    LET store(ip) ==
            Sent(Handled(WithInfo(prn, DictSet(ensure_printer_info(prn), "printerError",
                                               snmpplugin_printerError(ip, NetDevice(ip, o)))),
                         << >>),
                 ip, is_good_ip(ip))
    IN  store(norm_ip(prn))

snmpplugin_selected(prn) ==
    is_good_ip(norm_ip(prn)) /\ matches_type(prn, SNMP_TARGET_TYPES)

\* hp_ews_active_alerts.py _enrich_item; an offline result puts the address
\* into offline_ips
hpews_enrich_item(item, o) ==
    LET enrich(ip) ==
            Sent(Handled(WithInfo(item, DictSet(ensure_printer_info(item), "printerError",
                                                hpews_printerError(ip, NetDevice(ip, o)))),
                         IF ip # "" /\ ip # "-" /\ o # "ok" THEN << [ip |-> ip] >> ELSE << >>),
                 ip, ip # "" /\ ip # "-")
    IN  enrich(py_strip(item.ip))

hpews_selected(it) ==
    LET selected(t, ip) ==
            t # "" /\ ip # "" /\ ip # "-" /\ py_lower(t) \in { py_lower(x) : x \in SNMP_TARGET_TYPES }
    IN  selected(py_strip(it.Type), py_strip(it.ip))

\* hp_ledm_status.py run, one iteration over a target
hpledm_run_iteration(e, o) ==
    LET store(ip, res) ==
            IF ip = "" \/ ip = "-" THEN Handled(e, << >>)
            ELSE Sent(Handled(WithInfo(e, DictSet(ensure_printer_info(e), "printerError",
                                                  IF py_lower(py_strip(res.problem)) = "ready"
                                                  THEN DictSet(res, "acknowledgeConsumableState", "Ready")
                                                  ELSE res)),
                              << >>),
                      ip, TRUE)
        probe(ip) == store(ip, hpledm_printerError(NetDevice(ip, o)))
    IN  probe(py_strip(e.ip))

hpledm_filter_targets(e) ==
    LET target(t, ip) == t \in { py_lower(x) : x \in LEDM_TARGET_TYPES } /\ ip # "" /\ ip # "-"
    IN  target(py_lower(py_strip(e.Type)), py_strip(e.ip))

\* hp_snmp_enricher.py _enrich_item: _fetch_alerts swallows every request
\* error and then returns no alerts
hpenr_enrich_item(item, o) ==
    LET store(ip, pi, r) ==
            IF ip = "" \/ py_lower(ip) \in {"-", "null"}
            THEN Handled(WithInfo(item, DictSet(DictSet(pi, "status", "offline"), "reason", "no IP")),
                         << [id |-> item.ID, ip |-> IF ip = "" THEN "-" ELSE ip, reason |-> "no IP"] >>)
            ELSE Sent(Handled(WithInfo(item,
                                  DictSet(DictSet(pi, "status", "online"), "printerError",
                                          DictSet(DictSet(DictSet(Get(pi, "printerError", << >>),
                                                                  "code", r.code),
                                                          "problem", r.problem),
                                                  "severity", r.severity))),
                              << >>),
                      ip, TRUE)
        probe(ip, pi, dev) ==
            store(ip, pi, hpenr_printerError(IF o = "ok" THEN dev.alerts ELSE << >>, dev.catalog))
        enrich(ip) == probe(ip, ensure_printer_info(item), NetDevice(ip, o))
    IN  enrich(py_strip(item.ip))

hpenr_selected(item) == legacy_matches_type(item.Type, EWS_TARGET_TYPES)

\* a handler that lets the probe's exception leave it
toner_enrich_item_unguarded(item, o) ==
    IF o = "ok"
    THEN Handled([item EXCEPT !.hasInfo = TRUE,
                              !.info = [status |-> "online", cartridges |-> NetDevice(py_strip(item.ip), o).carts]],
                 << >>)
    ELSE Escaped(item)

\* toner-LaserJet.py _enrich_item: the printerInfo is assigned anew on every
\* path; wait_for raises asyncio.TimeoutError when the timeout cuts the probe
toner_enrich_item(item, o) ==
    LET enrich(ip, reason) ==
            IF ip = "" \/ py_lower(ip) \in {"-", "null"}
            THEN Handled(WithInfo(item, [status |-> "offline", reason |-> "no IP"]),
                         << [id |-> item.ID, ip |-> IF ip = "" THEN "-" ELSE ip, reason |-> "no IP"] >>)
            ELSE IF o = "ok"
            THEN Sent(Handled(WithInfo(item, [status |-> "online", cartridges |-> NetDevice(ip, o).carts]),
                              << >>),
                      ip, TRUE)
            ELSE Sent(Handled(WithInfo(item, [status |-> "offline", reason |-> reason]),
                              << [id |-> item.ID, ip |-> ip, reason |-> reason] >>),
                      ip, TRUE)
    IN  enrich(py_strip(item.ip), ExcText(o))

toner_selected(item) == legacy_matches_type(item.Type, TONER_TARGET_TYPES)

\* toner-MFC-L9570CDW.py
TONERMFC_TARGET_TYPES == { "MFC-L9570CDW", "MFC-L6900DW" }

tonermfc_iter_matching_entries(item) ==
    py_upper(py_strip(item.Type)) \in { py_upper(t) : t \in TONERMFC_TARGET_TYPES }

\* get_ip_from_entry: the stripped address, None ("") when it is blank
tonermfc_get_ip_from_entry(entry) == py_strip(entry.ip)

\* scrape_levels: a timeout or a request error is "offline" with no cartridge
tonermfc_scrape_levels(ip, o) ==
    IF o = "ok"
    THEN [status |-> "online", cartridges |-> NetDevice(ip, o).carts]
    ELSE [status |-> "offline", cartridges |-> << >>]

\* one turn of the loop of main: an entry without address is skipped,
\* update_entry_printer_info assigns a new printerInfo
tonermfc_main_iteration(entry, o) ==
    LET turn(ip) ==
            IF ip = ""
            THEN Handled(entry, << >>)
            ELSE Sent(Handled(WithInfo(entry, tonermfc_scrape_levels(ip, o)), << >>), ip, TRUE)
    IN  turn(tonermfc_get_ip_from_entry(entry))

RunScripts ==
    { "snmp_plugin", "hp_ews_active_alerts", "hp_ledm_status", "hp_snmp_enricher", "toner_laserjet" }

\* the scripts that run their printers one after the other; the other two
\* gather one asyncio task per printer
SequentialScripts == { "snmp_plugin", "hp_ledm_status", "hp_snmp_enricher" }

\* the handler a script runs for one entity of its work list
HandlerOf(sc, e, o) ==
    CASE sc = "snmp_plugin" -> snmpplugin_main_iteration(e, o)
      [] sc = "hp_ews_active_alerts" -> hpews_enrich_item(e, o)
      [] sc = "hp_ledm_status" -> hpledm_run_iteration(e, o)
      [] sc = "hp_snmp_enricher" -> hpenr_enrich_item(e, o)
      [] OTHER -> toner_enrich_item(e, o)

\* the entities a run without -ip works on
Work(sc, doc) ==
    { i \in 1..Len(doc) :
        CASE sc = "snmp_plugin" -> snmpplugin_selected(doc[i])
          [] sc = "hp_ews_active_alerts" -> hpews_selected(doc[i])
          [] sc = "hp_ledm_status" -> hpledm_filter_targets(doc[i])
          [] sc = "hp_snmp_enricher" -> hpenr_selected(doc[i])
          [] sc = "toner_mfc" -> tonermfc_iter_matching_entries(doc[i])
          [] OTHER -> toner_selected(doc[i]) }

\* a type of the script's target list, for the documents of the model
TargetTypeOf(sc) ==
    CASE sc \in {"snmp_plugin", "hp_ews_active_alerts", "toner_laserjet"} -> "M527"
      [] sc = "hp_ledm_status" -> "M402dn"
      [] sc = "toner_mfc" -> "MFC-L9570CDW"
      [] OTHER -> "408dn"

\* printerInfo dicts earlier runs leave behind
TonerRunInfo ==
    [ status |-> "online", tonerType |-> "CF287A",
      cartridges |-> << [cartridge |-> "Black", remaining_percent |-> "80%"] >> ]
FailedRunInfo ==
    [ status |-> "offline", reason |-> "timed out",
      printerError |-> [problem |-> "Offline", severity |-> "critical"] ]

\* the entities a run with -ip works on
TargetWork(sc, ip, doc) ==
    { i \in 1..Len(doc) :
        CASE sc = "snmp_plugin" -> norm_ip(doc[i]) = ip
          [] sc = "hp_ledm_status" -> hpledm_filter_targets(doc[i]) /\ py_strip(doc[i].ip) = ip
          [] OTHER -> py_strip(doc[i].ip) = ip }

\* the one-off entity snmp_active_alerts.py main and hp_ews_active_alerts.py
\* _process make for an -ip that no entity has
NoSynthetic == [made |-> FALSE, prn |-> << >>]
SyntheticItem(ip) == [ID |-> "", Type |-> "", ip |-> ip, hasInfo |-> TRUE, info |-> << >>]
UsesSynthetic(sc, ip, W) == sc \in { "snmp_plugin", "hp_ews_active_alerts" } /\ ip # "" /\ W = {}

\* the -ip arguments of the model: none, the address of the first entity, an
\* address no entity has
OnlyIps == { "", "10.0.0.1", "10.0.0.9" }

Entity(i, typ, ip, hasInfo, info) ==
    [ID |-> "P" \o py_str(i), Type |-> typ, ip |-> ip, hasInfo |-> hasInfo, info |-> info]

EntityShapes(sc, i) ==
    LET addr == "10.0.0." \o py_str(i)
    IN  { Entity(i, TargetTypeOf(sc), addr, TRUE, TonerRunInfo),
          Entity(i, TargetTypeOf(sc), addr, FALSE, << >>),
          Entity(i, TargetTypeOf(sc), "-", TRUE, TonerRunInfo),
          Entity(i, "LaserJet 1020", addr, TRUE, FailedRunInfo) }

Documents(sc) ==
    { d \in [1..NumEntities -> UNION { EntityShapes(sc, i) : i \in 1..NumEntities }] :
        \A i \in 1..NumEntities : d[i] \in EntityShapes(sc, i) }

\* a file: absent, opened for writing and not yet written in full, or holding
\* a whole document
NoFile == [exists |-> FALSE, complete |-> FALSE, doc |-> << >>]
PartialFile == [exists |-> TRUE, complete |-> FALSE, doc |-> << >>]
FullFile(d) == [exists |-> TRUE, complete |-> TRUE, doc |-> d]

NotRun == [problem |-> "<not run>", severity |-> "<not run>"]

\* the end of the process: its exit code, and whether the failure was
\* reported (a printed message, or the traceback of an uncaught exception)
\* no HTTP session
NoHttp == [prefer_https |-> FALSE, legacy |-> FALSE, sent |-> << >>, hosts |-> << >>]

NotExited == [ended |-> FALSE, code |-> 0, reported |-> FALSE]
Exited(code, reported) == [ended |-> TRUE, code |-> code, reported |-> reported]

VARIABLES kind, dev, written, script, doc0, work, data, disk, tmp, pc, outcome, failures,
          only_ip, calls, learned, synthetic, exit, http
vars == << kind, dev, written, script, doc0, work, data, disk, tmp, pc, outcome, failures,
           only_ip, calls, learned, synthetic, exit, http >>
normVars == << kind, dev, written >>
\* only_ip is the -ip argument ("" when there is none), calls counts the
\* probes sent to each address, learned is the value kept for each type,
\* synthetic is the one-off entity made for an -ip no entity has, exit is
\* how the process ended, http is the requests.Session of hp_ledm_status.py
\* run with the HTTPS requests sent through it
auxVars == << only_ip, calls, learned, synthetic, http >>
runVars == << script, doc0, work, data, disk, tmp, pc, outcome, failures, auxVars, exit >>

Scripts == { "snmp_plugin", "hp_ews_active_alerts", "ledm_plugin", "hp_ledm_status",
             "ews_alerts", "hp_snmp_enricher" }

Ran(s) == written[s].problem # NotRun.problem

NormInit ==
    /\ \/ kind = "snmp" /\ dev \in SnmpDevices
       \/ kind = "ledm" /\ dev \in LedmDevices
       \/ kind = "ews" /\ dev \in EwsDevices
    /\ written = [s \in Scripts |-> NotRun]
    /\ script = "-"
    /\ doc0 = << >>
    /\ work = {}
    /\ data = << >>
    /\ disk = NoFile
    /\ tmp = NoFile
    /\ pc = "-"
    /\ outcome = << >>
    /\ failures = << >>
    /\ only_ip = ""
    /\ calls = << >>
    /\ learned = << >>
    /\ synthetic = NoSynthetic
    /\ exit = NotExited
    /\ http = NoHttp

\* plugins/printerError/snmp_active_alerts.py on one printer
SnmpPluginProcess ==
    /\ kind = "snmp"
    /\ ~ Ran("snmp_plugin")
    /\ written' = [written EXCEPT !["snmp_plugin"] = snmpplugin_printerError(norm_ip(dev), dev)]
    /\ UNCHANGED << kind, dev, runVars >>

\* hp_ews_active_alerts.py on one printer
HpEwsEnrich ==
    /\ kind = "snmp"
    /\ ~ Ran("hp_ews_active_alerts")
    /\ written' = [written EXCEPT !["hp_ews_active_alerts"] = hpews_printerError(norm_ip(dev), dev)]
    /\ UNCHANGED << kind, dev, runVars >>

\* plugins/printerError/ledm_active_alerts.py on one printer
LedmPluginProcess ==
    /\ kind = "ledm"
    /\ ~ Ran("ledm_plugin")
    /\ written' = [written EXCEPT !["ledm_plugin"] = ledmplugin_printerError(norm_ip(dev), dev)]
    /\ UNCHANGED << kind, dev, runVars >>

\* hp_ledm_status.py on one printer
HpLedmProcess ==
    /\ kind = "ledm"
    /\ ~ Ran("hp_ledm_status")
    /\ written' = [written EXCEPT !["hp_ledm_status"] = hpledm_printerError(dev)]
    /\ UNCHANGED << kind, dev, runVars >>

\* adapters/ews_alerts.py get_ews_problem_and_severity on one printer
EwsGetProblem ==
    /\ kind = "ews"
    /\ ~ Ran("ews_alerts")
    /\ written' = [written EXCEPT !["ews_alerts"] =
                      ews_get_ews_problem_and_severity(dev.alerts, dev.catalog)]
    /\ UNCHANGED << kind, dev, runVars >>

\* hp_snmp_enricher.py _enrich_item, the probe answered
HpEnrEnrich ==
    /\ kind = "ews"
    /\ ~ Ran("hp_snmp_enricher")
    /\ written' = [written EXCEPT !["hp_snmp_enricher"] = hpenr_printerError(dev.alerts, dev.catalog)]
    /\ UNCHANGED << kind, dev, runVars >>

NormNext ==
    \/ SnmpPluginProcess
    \/ HpEwsEnrich
    \/ LedmPluginProcess
    \/ HpLedmProcess
    \/ EwsGetProblem
    \/ HpEnrEnrich

SpecNorm == NormInit /\ [][NormNext]_vars

\* ------------------------------------------------------------------------
\* One run of a script over the document
\* ------------------------------------------------------------------------
\* hp_ledm_status.py writes the document in place; hp_ews_active_alerts.py
\* does so when it found nothing to work on
WritesInPlace ==
    script = "hp_ledm_status" \/ (script = "hp_ews_active_alerts" /\ work = {} /\ only_ip = "")

Init ==
    /\ kind = "run"
    /\ dev = << >>
    /\ written = [s \in Scripts |-> NotRun]
    /\ script \in RunScripts
    /\ doc0 \in Documents(script)
    /\ only_ip \in OnlyIps
    /\ work = IF only_ip = "" THEN Work(script, doc0) ELSE TargetWork(script, only_ip, doc0)
    /\ data = doc0
    /\ disk = FullFile(doc0)
    /\ tmp = NoFile
    /\ pc = IF work = {} /\ ~ UsesSynthetic(script, only_ip, work) THEN "save" ELSE "enrich"
    /\ outcome = [i \in 1..NumEntities |-> "none"]
    /\ failures = << >>
    /\ calls = << >>
    /\ learned = << >>
    /\ synthetic = NoSynthetic
    /\ exit = NotExited
    /\ http = NoHttp

\* the values an absent or placeholder address takes in a document
PlaceholderAddresses == { "-", "", "null", "0.0.0.0" }

AddrEntityShapes(sc, i) ==
    { Entity(i, TargetTypeOf(sc), a, FALSE, << >>) :
        a \in PlaceholderAddresses \cup { "10.0.0." \o py_str(i) } }

AddrDocuments(sc) ==
    { d \in [1..NumEntities -> UNION { AddrEntityShapes(sc, i) : i \in 1..NumEntities }] :
        \A i \in 1..NumEntities : d[i] \in AddrEntityShapes(sc, i) }

\* a run over a document in which addresses are missing
AddrInit ==
    /\ kind = "run"
    /\ dev = << >>
    /\ written = [s \in Scripts |-> NotRun]
    /\ script \in RunScripts
    /\ doc0 \in AddrDocuments(script)
    /\ only_ip \in { "", "0.0.0.0" }
    /\ work = IF only_ip = "" THEN Work(script, doc0) ELSE TargetWork(script, only_ip, doc0)
    /\ data = doc0
    /\ disk = FullFile(doc0)
    /\ tmp = NoFile
    /\ pc = IF work = {} /\ ~ UsesSynthetic(script, only_ip, work) THEN "save" ELSE "enrich"
    /\ outcome = [i \in 1..NumEntities |-> "none"]
    /\ failures = << >>
    /\ calls = << >>
    /\ learned = << >>
    /\ synthetic = NoSynthetic
    /\ exit = NotExited
    /\ http = NoHttp

Pending == { i \in work : outcome[i] = "none" }

\* the handler is over for entity i: its result is in the document, or its
\* exception ends the loop (the gather) and with it the run
Finish(i, o, res) ==
    /\ IF res.raised
       THEN /\ pc' = "aborted"
            /\ UNCHANGED << data, outcome, failures >>
       ELSE /\ data' = [data EXCEPT ![i] = res.prn]
            /\ outcome' = [outcome EXCEPT ![i] = o]
            /\ failures' = failures \o res.failures
            /\ pc' = IF Pending = {i} THEN "save" ELSE "enrich"
    /\ calls' = CountCalls(calls, res.probed)
    /\ UNCHANGED << normVars, script, doc0, work, disk, tmp, only_ip, learned, synthetic, exit >>

NextInOrder(i) == i \in Pending /\ \A j \in Pending : i <= j

ProbeOutcomes == { "ok", "timeout", "error" }

SnmpPluginIteration ==
    /\ script = "snmp_plugin" /\ pc = "enrich"
    /\ UNCHANGED http
    /\ \E i \in Pending, o \in ProbeOutcomes :
          NextInOrder(i) /\ Finish(i, o, snmpplugin_main_iteration(data[i], o))

HpLedmIteration ==
    /\ script = "hp_ledm_status" /\ pc = "enrich"
    /\ UNCHANGED http
    /\ \E i \in Pending, o \in ProbeOutcomes :
          NextInOrder(i) /\ Finish(i, o, hpledm_run_iteration(data[i], o))

HpEnrIteration ==
    /\ script = "hp_snmp_enricher" /\ pc = "enrich"
    /\ UNCHANGED http
    /\ \E i \in Pending, o \in ProbeOutcomes :
          NextInOrder(i) /\ Finish(i, IF is_good_ip(norm_ip(data[i])) THEN o ELSE "noip",
                                   hpenr_enrich_item(data[i], o))

HpEwsTask ==
    /\ script = "hp_ews_active_alerts" /\ pc = "enrich"
    /\ UNCHANGED http
    /\ \E i \in Pending, o \in ProbeOutcomes : Finish(i, o, hpews_enrich_item(data[i], o))

TonerTask ==
    /\ script = "toner_laserjet" /\ pc = "enrich"
    /\ UNCHANGED http
    /\ \E i \in Pending, o \in ProbeOutcomes :
          Finish(i, IF is_good_ip(norm_ip(data[i])) THEN o ELSE "noip", toner_enrich_item(data[i], o))

\* the probe of the one-off entity: snmp_active_alerts.py main calls
\* _process_one_printer and logs what it returns, hp_ews_active_alerts.py
\* gathers _enrich_item on the entity
SyntheticProbe ==
    /\ pc = "enrich" /\ UsesSynthetic(script, only_ip, work) /\ ~ synthetic.made
    /\ \E o \in ProbeOutcomes :
          LET probed(res) ==
                  /\ synthetic' = [made |-> TRUE, prn |-> res.prn]
                  /\ calls' = CountCalls(calls, res.probed)
                  /\ failures' = failures \o res.failures
          IN  probed(IF script = "snmp_plugin"
                     THEN Sent(Handled(SyntheticItem(only_ip), << >>), only_ip, is_good_ip(only_ip))
                     ELSE hpews_enrich_item(SyntheticItem(only_ip), o))
    /\ pc' = "save"
    /\ UNCHANGED << normVars, script, doc0, work, data, disk, tmp, outcome, only_ip, learned, exit, http >>

\* save_printers / the tail of the legacy scripts: open the temporary file
OpenTmp ==
    /\ pc = "save" /\ ~ WritesInPlace
    /\ tmp' = PartialFile
    /\ pc' = "writing"
    /\ UNCHANGED << normVars, script, doc0, work, data, disk, outcome, failures, auxVars, exit >>

\* json.dump into the temporary file, and close
WriteTmp ==
    /\ pc = "writing" /\ ~ WritesInPlace
    /\ tmp' = FullFile(data)
    /\ pc' = "written"
    /\ UNCHANGED << normVars, script, doc0, work, data, disk, outcome, failures, auxVars, exit >>

\* tmp.replace(path) / os.replace(tmp, json_path)
Rename ==
    /\ pc = "written"
    /\ disk' = tmp
    /\ tmp' = NoFile
    /\ pc' = "done"
    /\ exit' = Exited(0, FALSE)
    /\ UNCHANGED << normVars, script, doc0, work, data, outcome, failures, auxVars >>

\* open(input_path, "w") / Path.write_text: the document itself is truncated
OpenInPlace ==
    /\ pc = "save" /\ WritesInPlace
    /\ disk' = PartialFile
    /\ pc' = "writing"
    /\ UNCHANGED << normVars, script, doc0, work, data, tmp, outcome, failures, auxVars, exit >>

WriteInPlace ==
    /\ pc = "writing" /\ WritesInPlace
    /\ disk' = FullFile(data)
    /\ pc' = "done"
    /\ exit' = Exited(0, FALSE)
    /\ UNCHANGED << normVars, script, doc0, work, data, tmp, outcome, failures, auxVars >>

\* the process is killed, or the write fails (disk full, I/O error)
Crash ==
    /\ pc \in { "enrich", "save", "writing", "written" }
    /\ pc' = "crashed"
    /\ UNCHANGED << normVars, script, doc0, work, data, disk, tmp, outcome, failures, auxVars, exit >>

Next ==
    \/ SnmpPluginIteration
    \/ HpLedmIteration
    \/ HpEnrIteration
    \/ HpEwsTask
    \/ TonerTask
    \/ SyntheticProbe
    \/ OpenTmp
    \/ WriteTmp
    \/ Rename
    \/ OpenInPlace
    \/ WriteInPlace
    \/ Crash

Spec == Init /\ [][Next]_vars

(***************************************************************************)
(* Runs in which the load or the write fails                               *)
(***************************************************************************)

FailScripts == { "snmp_plugin", "hp_ledm_status", "toner_mfc" }

\* the run starts before the load; the file is a whole document, is not
\* JSON, or is missing.  doc0 is the document the file holds, << >> when it
\* holds none.
FailInit ==
    /\ kind = "run"
    /\ dev = << >>
    /\ written = [s \in Scripts |-> NotRun]
    /\ script \in FailScripts
    /\ \/ doc0 \in Documents(script) /\ disk = FullFile(doc0)
       \/ doc0 = << >> /\ disk \in { PartialFile, NoFile }
    /\ only_ip = ""
    /\ work = {}
    /\ data = << >>
    /\ tmp = NoFile
    /\ pc = "load"
    /\ outcome = [i \in 1..NumEntities |-> "none"]
    /\ failures = << >>
    /\ calls = << >>
    /\ learned = << >>
    /\ synthetic = NoSynthetic
    /\ exit = NotExited
    /\ http = NoHttp

\* load_printers / json.load succeeds and the script selects its work;
\* toner-MFC-L9570CDW.py main returns when nothing matches
LoadDocument ==
    /\ pc = "load" /\ disk.complete
    /\ data' = disk.doc
    /\ work' = Work(script, disk.doc)
    /\ IF work' # {}
       THEN pc' = "enrich" /\ UNCHANGED exit
       ELSE IF script = "toner_mfc"
       THEN pc' = "done" /\ exit' = Exited(0, FALSE)
       ELSE pc' = "save" /\ UNCHANGED exit
    /\ UNCHANGED << normVars, script, doc0, disk, tmp, outcome, failures, auxVars >>

\* the load fails.  hp_ledm_status.py run prints ERROR and returns 2;
\* toner-MFC-L9570CDW.py main prints a line on the standard output and
\* returns None; load_context_from_args lets the exception end the process
LoadFails ==
    /\ pc = "load" /\ ~ disk.complete
    /\ pc' = "failed"
    /\ exit' = CASE script = "hp_ledm_status" -> Exited(2, TRUE)
                [] script = "toner_mfc" -> Exited(0, TRUE)
                [] OTHER -> Exited(1, TRUE)
    /\ UNCHANGED << normVars, script, doc0, work, data, disk, tmp, outcome, failures, auxVars >>

TonerMfcIteration ==
    /\ script = "toner_mfc" /\ pc = "enrich"
    /\ UNCHANGED http
    /\ \E i \in Pending, o \in ProbeOutcomes :
          NextInOrder(i) /\ Finish(i, IF tonermfc_get_ip_from_entry(data[i]) = "" THEN "noip" ELSE o,
                                   tonermfc_main_iteration(data[i], o))

\* open, json.dump or replace raises (disk full, I/O error, no permission):
\* the files stay as the failed call left them.  hp_ledm_status.py run
\* prints ERROR and returns 3; toner-MFC-L9570CDW.py main prints a line on
\* the standard output and returns None; save_context lets the exception
\* end the process
WriteFails ==
    /\ pc \in { "save", "writing", "written" }
    /\ pc' = "failed"
    /\ exit' = CASE script = "hp_ledm_status" -> Exited(3, TRUE)
                [] script = "toner_mfc" -> Exited(0, TRUE)
                [] OTHER -> Exited(1, TRUE)
    /\ UNCHANGED << normVars, script, doc0, work, data, disk, tmp, outcome, failures, auxVars >>

FailNext ==
    \/ LoadDocument
    \/ LoadFails
    \/ SnmpPluginIteration
    \/ HpLedmIteration
    \/ TonerMfcIteration
    \/ OpenTmp
    \/ WriteTmp
    \/ Rename
    \/ OpenInPlace
    \/ WriteInPlace
    \/ WriteFails

SpecFail == FailInit /\ [][FailNext]_vars

(***************************************************************************)
(* The HTTP transport of hp_ledm_status.py                                 *)
(***************************************************************************)

\* how a device answers on port 443: it completes the handshake of the
\* default adapter, it completes only the handshake of TLSLegacyAdapter
\* (TLS 1.0 to 1.2, check_hostname off), or it refuses the connection
TlsKinds == { "modern", "old", "closed" }

\* a device: its port 443, and whether it serves the documents over http
Hosts == [tls : TlsKinds, plain : BOOLEAN]

\* the two documents process_printer fetches, in the order of its dict
LEDM_PATHS == << "/DevMgmt/ProductStatusDyn.xml", "/EventMgmt/EventTable.xml" >>

\* session.get(https://...): the outcome with the adapter that is mounted
hpledm_session_get(tls, legacy) ==
    IF tls = "closed" THEN "refused"
    ELSE IF tls = "old" /\ ~ legacy THEN "sslerror"
    ELSE "ok"

\* an HTTPS request as sent: legacy tells whether TLSLegacyAdapter was the
\* adapter mounted for https:// when it was sent
HttpsRequest(ip, path, legacy, out) ==
    [ip |-> ip, path |-> path, legacy |-> legacy, outcome |-> out]

\* _install_tls_legacy: session.mount on the session of the run
hpledm_install_tls_legacy(h) == [h EXCEPT !.legacy = TRUE]

\* _try_get, one scheme of its loop.  h carries the session and got, the
\* content found so far.  An SSLError on https mounts the legacy adapter on
\* the session and sends the request again.
hpledm_try_get_https(h, ip, path, host) ==
    LET again(g, out) ==
            [g EXCEPT !.sent = Append(g.sent, HttpsRequest(ip, path, g.legacy, out)),
                      !.got = (out = "ok")]
        first(g, out) ==
            IF out = "sslerror"
            THEN again(hpledm_install_tls_legacy(g), hpledm_session_get(host.tls, TRUE))
            ELSE [g EXCEPT !.got = (out = "ok")]
        send(out) ==
            first([h EXCEPT !.sent = Append(h.sent, HttpsRequest(ip, path, h.legacy, out))], out)
    IN  send(hpledm_session_get(host.tls, h.legacy))

hpledm_try_get_http(h, host) == [h EXCEPT !.got = host.plain]

\* _try_get: the schemes in the order --https gives, up to the first content
hpledm_try_get(h, ip, path, host) ==
    LET second_plain(g) == IF g.got THEN g ELSE hpledm_try_get_http(g, host)
        second_tls(g) == IF g.got THEN g ELSE hpledm_try_get_https(g, ip, path, host)
    IN  IF h.prefer_https
        THEN second_plain(hpledm_try_get_https(h, ip, path, host))
        ELSE second_tls(hpledm_try_get_http(h, host))

\* process_printer: the two fetches through the session of the run; raw
\* holds a document for each path that gave content
hpledm_process_printer(h, ip, host) ==
    LET events(g, status_got) ==
            [g EXCEPT !.got = status_got /\ g.got]
        status(g) ==
            events(hpledm_try_get([g EXCEPT !.got = FALSE], ip, LEDM_PATHS[2], host), g.got)
    IN  status(hpledm_try_get([h EXCEPT !.got = FALSE], ip, LEDM_PATHS[1], host))

\* a run of hp_ledm_status.py with or without --https over devices of every
\* kind; session = requests.Session() is made once, before the loop
TlsInit ==
    /\ kind = "run"
    /\ dev = << >>
    /\ written = [s \in Scripts |-> NotRun]
    /\ script = "hp_ledm_status"
    /\ doc0 \in Documents(script)
    /\ only_ip = ""
    /\ work = Work(script, doc0)
    /\ data = doc0
    /\ disk = FullFile(doc0)
    /\ tmp = NoFile
    /\ pc = IF work = {} THEN "save" ELSE "enrich"
    /\ outcome = [i \in 1..NumEntities |-> "none"]
    /\ failures = << >>
    /\ calls = << >>
    /\ learned = << >>
    /\ synthetic = NoSynthetic
    /\ exit = NotExited
    /\ \E p \in BOOLEAN, hs \in [1..NumEntities -> Hosts] :
          http = [prefer_https |-> p, legacy |-> FALSE, sent |-> << >>, hosts |-> hs]

\* one turn of the loop of run: process_printer through the session, then
\* the result into printerInfo
HpLedmTransportIteration ==
    /\ script = "hp_ledm_status" /\ pc = "enrich"
    /\ \E i \in Pending :
          LET turn(h) ==
                  /\ http' = [prefer_https |-> h.prefer_https, legacy |-> h.legacy,
                              sent |-> h.sent, hosts |-> h.hosts]
                  /\ Finish(i, IF h.got THEN "ok" ELSE "error",
                            hpledm_run_iteration(data[i], IF h.got THEN "ok" ELSE "error"))
          IN  /\ NextInOrder(i)
              /\ turn(hpledm_process_printer([prefer_https |-> http.prefer_https,
                                              legacy |-> http.legacy, sent |-> http.sent,
                                              hosts |-> http.hosts, got |-> FALSE],
                                             py_strip(data[i].ip), http.hosts[i]))

TlsNext ==
    \/ HpLedmTransportIteration
    \/ OpenInPlace
    \/ WriteInPlace

SpecTls == TlsInit /\ [][TlsNext]_vars

(***************************************************************************)
(* A run with its probes in flight                                         *)
(***************************************************************************)

\* outcome[i] = "running": the probe of entity i was sent and has not come
\* back (the task is suspended in its await, or the loop is inside the call)
Running == { i \in work : outcome[i] = "running" }
Unresolved == { i \in work : outcome[i] \in { "none", "running" } }

\* the states of pc from the opening of the output file on
WriteStarted == { "writing", "written", "done" }

\* the script can start on entity j: j is the next of the work list, and in
\* a for loop the call for the entity before it has returned; the tasks of
\* asyncio.gather all start before any probe comes back
CanStart(j) ==
    /\ pc = "enrich"
    /\ NextInOrder(j)
    /\ script \in SequentialScripts => Running = {}

\* as gather, but going on to the save when the first task is over
Resolve_first_completed(i, o, res) ==
    /\ data' = [data EXCEPT ![i] = res.prn]
    /\ outcome' = [outcome EXCEPT ![i] = o]
    /\ failures' = failures \o res.failures
    /\ pc' = "save"
    /\ calls' = CountCalls(calls, res.probed)
    /\ UNCHANGED << normVars, script, doc0, work, disk, tmp, only_ip, learned, synthetic, exit, http >>

\* the handler of entity i is over; the loop, or asyncio.gather, is over
\* when the handlers of all entities are
Resolve(i, o, res) ==
    /\ data' = [data EXCEPT ![i] = res.prn]
    /\ outcome' = [outcome EXCEPT ![i] = o]
    /\ failures' = failures \o res.failures
    /\ pc' = IF Unresolved = {i} THEN "save" ELSE "enrich"
    /\ calls' = CountCalls(calls, res.probed)
    /\ UNCHANGED << normVars, script, doc0, work, disk, tmp, only_ip, learned, synthetic, exit, http >>

TaskInit ==
    /\ kind = "run"
    /\ dev = << >>
    /\ written = [s \in Scripts |-> NotRun]
    /\ script \in RunScripts
    /\ doc0 \in Documents(script)
    /\ only_ip = ""
    /\ work = Work(script, doc0)
    /\ data = doc0
    /\ disk = FullFile(doc0)
    /\ tmp = NoFile
    /\ pc = IF work = {} THEN "save" ELSE "enrich"
    /\ outcome = [i \in 1..NumEntities |-> "none"]
    /\ failures = << >>
    /\ calls = << >>
    /\ learned = << >>
    /\ synthetic = NoSynthetic
    /\ exit = NotExited
    /\ http = NoHttp

\* the handler of the next entity starts: it sends its probe and waits, or,
\* for an entity it sends no probe to, it is over at once
StartTask ==
    \E j \in Pending :
        /\ CanStart(j)
        /\ IF HandlerOf(script, data[j], "ok").probed = << >>
           THEN Resolve(j, "noip", HandlerOf(script, data[j], "ok"))
           ELSE /\ outcome' = [outcome EXCEPT ![j] = "running"]
                /\ UNCHANGED << normVars, script, doc0, work, data, disk, tmp, pc, failures,
                                auxVars, exit >>

\* a probe comes back, with an answer, a timeout or an error
ResolveTask ==
    /\ pc = "enrich"
    /\ \E i \in Running, o \in ProbeOutcomes : Resolve(i, o, HandlerOf(script, data[i], o))

TaskNext ==
    \/ StartTask
    \/ ResolveTask
    \/ OpenTmp
    \/ WriteTmp
    \/ Rename
    \/ OpenInPlace
    \/ WriteInPlace

SpecTask == TaskInit /\ [][TaskNext]_vars

(***************************************************************************)
(* The alert adapters on a walk that holds varbinds of any shape           *)
(***************************************************************************)

MaxVarbinds == 2

\* varbinds a walk can yield: two of instance 1.1 and one of instance 8.1
\* of the alert table, one from outside the table, one whose OID has one component, one whose last
\* component is no number
WalkVarbindShapes ==
    { [oid |-> ALERT_TABLE_ROOT \o "." \o COL_SEVERITY \o ".1.1", value |-> IntV(4)],
      [oid |-> ALERT_TABLE_ROOT \o "." \o COL_DESC \o ".1.1", value |-> StrV("Door open")],
      [oid |-> ALERT_TABLE_ROOT \o "." \o COL_DESC \o ".8.1", value |-> StrV("Toner low")],
      [oid |-> "1.3.7." \o COL_DESC \o ".1", value |-> StrV("Paper jam")],
      [oid |-> COL_DESC, value |-> StrV("Paper jam")],
      [oid |-> ALERT_TABLE_ROOT \o "." \o COL_DESC \o ".1.x", value |-> StrV("Paper jam")] }

WalkedVarbinds ==
    UNION { [1..n -> WalkVarbindShapes] : n \in 0..MaxVarbinds }

\* the printerError snmp_active_alerts.py main writes when the walk yields
\* vbs: process_snmp_alerts inside the try/except of the loop
snmpplugin_printerError_walk(vbs, hrvals) ==
    LET guarded(r) ==
            IF r.raised THEN [problem |-> "Offline", severity |-> "critical"]
            ELSE [problem |-> r.problem, severity |-> r.severity]
    IN  guarded(snmp_process_snmp_alerts(vbs, hrvals))

\* the printerError hp_ews_active_alerts.py _enrich_item writes when the
\* walk yields vbs
hpews_printerError_walk(vbs, hrvals) ==
    LET obj(r) == hpews_printer_error_obj(r.msg, r.sev)
    IN  obj(hpews_fetch_alerts(vbs, hrvals))

WalkInit ==
    /\ kind = "walk"
    /\ \E v \in WalkedVarbinds, h \in HrValues :
          dev = [ip |-> "10.0.0.5", transport |-> "ok", vbs |-> v, hr |-> h]
    /\ written = [s \in Scripts |-> NotRun]
    /\ script = "-"
    /\ doc0 = << >>
    /\ work = {}
    /\ data = << >>
    /\ disk = NoFile
    /\ tmp = NoFile
    /\ pc = "-"
    /\ outcome = << >>
    /\ failures = << >>
    /\ only_ip = ""
    /\ calls = << >>
    /\ learned = << >>
    /\ synthetic = NoSynthetic
    /\ exit = NotExited
    /\ http = NoHttp

SnmpPluginWalk ==
    /\ kind = "walk"
    /\ ~ Ran("snmp_plugin")
    /\ written' = [written EXCEPT !["snmp_plugin"] = snmpplugin_printerError_walk(dev.vbs, dev.hr)]
    /\ UNCHANGED << kind, dev, runVars >>

HpEwsWalk ==
    /\ kind = "walk"
    /\ ~ Ran("hp_ews_active_alerts")
    /\ written' = [written EXCEPT !["hp_ews_active_alerts"] = hpews_printerError_walk(dev.vbs, dev.hr)]
    /\ UNCHANGED << kind, dev, runVars >>

WalkNext ==
    \/ SnmpPluginWalk
    \/ HpEwsWalk

SpecWalk == WalkInit /\ [][WalkNext]_vars

SpecAddr == AddrInit /\ [][Next]_vars

\* ------------------------------------------------------------------------
\* Supply-type-code runs without -ip: one value per declared type
\* ------------------------------------------------------------------------
MaxTypeEntities == 3

TONERTYPE_TARGET_TYPES ==
    { "M402dn", "M404dn", "M426fdn", "M426fdw", "M477fnw", "M521dn", "E60055", "E60155", "E72525",
      "M527", "MFP-P57750-XC", "MFC-L9570CDW", "MFC-L6900DW", "SL-M3820ND" }
TONERTYPEOLD_TARGET_TYPES == { "408dn", "MFP432" }

TypeRunScripts == { "toner_type_snmp", "tonerType", "tonerTypeOld" }

\* the smallest index of a set of entities: the first one in document order
First(S) == CHOOSE i \in S : \A j \in S : i <= j

\* the entities that plugins/tonerType/toner_type_snmp.py main puts into by_type
tonertypeplugin_in_by_type(prn) ==
    is_good_ip(norm_ip(prn)) /\ matches_type(prn, TONERTYPE_TARGET_TYPES)

\* the entities tonerType.py _update_by_type_async puts into type_to_items
tonertype_in_type_to_items(item) ==
    py_strip(item.Type) # "" /\ legacy_matches_type(py_strip(item.Type), TONERTYPE_TARGET_TYPES)

\* the entities tonerTypeOld.py _update_json_inplace puts into work
tonertypeold_in_work(item) == legacy_matches_type(item.Type, TONERTYPEOLD_TARGET_TYPES)

TypeWork(sc, doc) ==
    { i \in 1..Len(doc) :
        CASE sc = "toner_type_snmp" -> tonertypeplugin_in_by_type(doc[i])
          [] sc = "tonerType" -> tonertype_in_type_to_items(doc[i])
          [] OTHER -> tonertypeold_in_work(doc[i]) }

\* by_type / type_to_items: the key of an entity, the keys, the members
TypeKey(prn) == py_strip(prn.Type)
TypeKeys(doc, W) == { TypeKey(doc[i]) : i \in W }
ItemsOfType(doc, W, t) == { i \in W : TypeKey(doc[i]) = t }

\* a dict is walked in insertion order: the key whose first member comes
\* first in the document
NextType(doc, W, ts) ==
    CHOOSE t \in ts : \A u \in ts : First(ItemsOfType(doc, W, t)) <= First(ItemsOfType(doc, W, u))

\* the keys of a dict in insertion order
TypeSeq(doc, W, ts) ==
    LET f[S \in SUBSET ts] ==
            IF S = {} THEN << >>
            ELSE << NextType(doc, W, S) >> \o f[S \ { NextType(doc, W, S) }]
    IN  f[ts]

\* adapters/toner_type_snmp.py get_snmp_toner_types over walk_oid: a walk
\* that times out yields nothing; dev.codes is the list the adapter makes of
\* the supplies table
tonertype_get_snmp_toner_types(d) ==
    LET parse(walk) ==
            [raised |-> walk.raised, codes |-> IF walk.raised THEN << >> ELSE walk.vbs]
    IN  parse(snmpclient_walk_oid(d.transport, d.codes))

\* the outcome of settling one type: its value, the addresses probed for it,
\* the entries added to the offline list
Settled(value, probed, fails) == [value |-> value, probed |-> probed, failures |-> fails]

\* toner_type_snmp.py main, lines 72-90: the value for one type
tonertypeplugin_preset(doc, items, o) ==
    LET probe(ip, got) ==
            Settled(IF got.raised THEN << >> ELSE got.codes, << ip >>, << >>)
        pick(presets, good) ==
            IF presets # {} THEN Settled(doc[First(presets)].info.tonerType, << >>, << >>)
            ELSE IF good # {}
            THEN probe(norm_ip(doc[First(good)]),
                       tonertype_get_snmp_toner_types(NetDevice(norm_ip(doc[First(good)]), o)))
            ELSE Settled(<< >>, << >>, << >>)
    IN  pick({ i \in items : doc[i].hasInfo /\ Get(doc[i].info, "tonerType", << >>) # << >> },
             { i \in items : is_good_ip(norm_ip(doc[i])) })

\* tonerType.py _update_by_type_async, lines 275-298: the types settled
\* without a probe
tonertype_presets(doc, items) ==
    { i \in items : doc[i].hasInfo /\ Get(doc[i].info, "tonerType", << >>) # << >> }
tonertype_representatives(doc, items) ==
    { i \in items : py_strip(doc[i].ip) # "" /\ py_lower(py_strip(doc[i].ip)) \notin {"-", "null"} }

\* tonerType.py run_fetch: the task that probes the representative of a type
tonertype_run_fetch(doc, items, o) ==
    LET fetch(rep, ip) ==
            IF o = "ok" THEN Settled(NetDevice(ip, o).codes, << ip >>, << >>)
            ELSE Settled(<< >>, << ip >>, << [id |-> doc[rep].ID, ip |-> ip, reason |-> ExcText(o)] >>)
        run(rep) == fetch(rep, py_strip(doc[rep].ip))
    IN  run(First(tonertype_representatives(doc, items)))

\* tonerTypeOld.py _update_json_inplace, lines 325-352: the value for one type
tonertypeold_learn(doc, items, t, o) ==
    LET fetch(rep, ip) ==
            IF o = "ok" THEN Settled(NetDevice(ip, o).toner_name, << ip >>, << >>)
            ELSE Settled("", << ip >>, << [id |-> doc[rep].ID, ip |-> ip, reason |-> ExcText(o)] >>)
        pick(presets, reps) ==
            IF presets # {} THEN Settled(doc[First(presets)].info.tonerType, << >>, << >>)
            ELSE IF reps = {}
            THEN Settled("", << >>, << [id |-> "-", ip |-> "-", reason |-> "no IP for type " \o t] >>)
            ELSE fetch(First(reps), py_strip(doc[First(reps)].ip))
    IN  pick({ i \in items : doc[i].hasInfo /\ Get(doc[i].info, "tonerType", "") # "" },
             { i \in items : py_strip(doc[i].ip) # "" /\ py_lower(py_strip(doc[i].ip)) \notin {"-", "null"} })

\* info["tonerType"] = list(preset) / it["printerInfo"]["tonerType"] = list(tt)
tonertype_assign(it, tt) == WithInfo(it, DictSet(ensure_printer_info(it), "tonerType", tt))

\* tonerTypeOld.py: pi = it.setdefault("printerInfo", {}); if tid: pi["tonerType"] = tid
tonertypeold_assign(it, tid) ==
    WithInfo(it, IF tid # "" THEN DictSet(ensure_printer_info(it), "tonerType", tid)
                 ELSE ensure_printer_info(it))

\* del d[k] on a dict
DictDel(d, k) == [x \in DOMAIN d \ {k} |-> d[x]]

\* tonerTypeOld.py _enrich_item, the handler of a run with -ip: status,
\* reason and tonerType are set on the printerInfo the entity has
tonertypeold_enrich_item(item, o) ==
    LET offline(pi, reason) ==
            DictSet(DictSet(DictSet(pi, "status", "offline"), "reason", reason), "tonerType", "")
        store(ip, pi) ==
            IF ip = "" \/ py_lower(ip) \in {"-", "null"}
            THEN Handled(WithInfo(item, offline(pi, "no IP")),
                         << [id |-> item.ID, ip |-> IF ip = "" THEN "-" ELSE ip, reason |-> "no IP"] >>)
            ELSE IF o = "ok"
            THEN Sent(Handled(WithInfo(item,
                                  DictDel(DictSet(DictSet(pi, "status", "online"),
                                                  "tonerType", NetDevice(ip, o).toner_name),
                                          "printerError")),
                              << >>),
                      ip, TRUE)
            ELSE Sent(Handled(WithInfo(item, offline(pi, ExcText(o))),
                              << [id |-> item.ID, ip |-> ip, reason |-> ExcText(o)] >>),
                      ip, TRUE)
    IN  store(py_strip(item.ip), ensure_printer_info(item))

\* a type of the script's target list, and a second one
TypeRunTypes(sc) == IF sc = "tonerTypeOld" THEN << "408dn", "MFP432" >> ELSE << "M527", "M402dn" >>

\* the value an earlier run of the script left with an entity
TypeRunPreset(sc) == IF sc = "tonerTypeOld" THEN "MLT-D203S" ELSE << "CF226X" >>

TypeEntityShapes(sc, i) ==
    LET addr == "10.0.0." \o py_str(i)
    IN  { Entity(i, TypeRunTypes(sc)[1], addr, FALSE, << >>),
          Entity(i, TypeRunTypes(sc)[1], "-", FALSE, << >>),
          Entity(i, TypeRunTypes(sc)[1], addr, TRUE, [tonerType |-> TypeRunPreset(sc)]),
          Entity(i, TypeRunTypes(sc)[2], addr, FALSE, << >>) }

TypeDocuments(sc) ==
    { d \in [1..MaxTypeEntities -> UNION { TypeEntityShapes(sc, i) : i \in 1..MaxTypeEntities }] :
        \A i \in 1..MaxTypeEntities : d[i] \in TypeEntityShapes(sc, i) }

TypeInit ==
    /\ kind = "types"
    /\ dev = << >>
    /\ written = [s \in Scripts |-> NotRun]
    /\ script \in TypeRunScripts
    /\ doc0 \in TypeDocuments(script)
    /\ work = TypeWork(script, doc0)
    /\ data = doc0
    /\ disk = FullFile(doc0)
    /\ tmp = NoFile
    /\ pc = IF work = {} THEN "save" ELSE IF script = "tonerType" THEN "plan" ELSE "types"
    /\ outcome = [i \in 1..MaxTypeEntities |-> "none"]
    /\ failures = << >>
    /\ only_ip = ""
    /\ calls = << >>
    /\ learned = << >>
    /\ synthetic = NoSynthetic
    /\ exit = NotExited
    /\ http = NoHttp

PendingTypes == TypeKeys(doc0, work) \ DOMAIN learned

\* toner_type_snmp.py main: one pass of "for t, items in by_type.items()",
\* which settles the value of the type and writes it to its members
TonerTypePluginPass ==
    /\ script = "toner_type_snmp" /\ pc = "types"
    /\ \E o \in ProbeOutcomes :
          LET pass(t, items, r) ==
                  /\ data' = [i \in DOMAIN data |->
                                 IF i \in items THEN tonertype_assign(data[i], r.value) ELSE data[i]]
                  /\ learned' = DictSet(learned, t, r.value)
                  /\ calls' = CountCalls(calls, r.probed)
                  /\ failures' = failures \o r.failures
                  /\ outcome' = [i \in DOMAIN outcome |->
                                    IF r.probed # << >> /\ i = First(items) THEN o ELSE outcome[i]]
                  /\ pc' = IF PendingTypes = {t} THEN "save" ELSE "types"
              settle(t, items) == pass(t, items, tonertypeplugin_preset(data, items, o))
              next(t) == settle(t, ItemsOfType(data, work, t))
          IN  next(NextType(data, work, PendingTypes))
    /\ UNCHANGED << normVars, script, doc0, work, disk, tmp, only_ip, synthetic, exit, http >>

\* tonerType.py _update_by_type_async up to the gather: the types that have a
\* preset, and the types no member of which has an address
TonerTypePlan ==
    /\ script = "tonerType" /\ pc = "plan"
    /\ LET plan(ts, presetTs, noRepTs) ==
               /\ learned' = [t \in presetTs \cup noRepTs |->
                                 IF t \in presetTs
                                 THEN data[First(tonertype_presets(data, ItemsOfType(data, work, t)))].info.tonerType
                                 ELSE << >>]
               /\ failures' = failures \o
                     [k \in 1..Cardinality(noRepTs) |->
                         [id |-> data[First(ItemsOfType(data, work, TypeSeq(data, work, noRepTs)[k]))].ID,
                          ip |-> "-",
                          reason |-> "no IP for type " \o TypeSeq(data, work, noRepTs)[k]]]
               /\ pc' = IF ts = presetTs \cup noRepTs THEN "assign" ELSE "fetch"
           split(ts, presetTs) ==
               plan(ts, presetTs,
                    { t \in ts \ presetTs : tonertype_representatives(data, ItemsOfType(data, work, t)) = {} })
           keys(ts) ==
               split(ts, { t \in ts : tonertype_presets(data, ItemsOfType(data, work, t)) # {} })
       IN  keys(TypeKeys(data, work))
    /\ UNCHANGED << normVars, script, doc0, work, data, disk, tmp, outcome, only_ip, calls, synthetic, exit, http >>

\* one of the gathered run_fetch tasks ends
TonerTypeFetch ==
    /\ script = "tonerType" /\ pc = "fetch"
    /\ \E t \in PendingTypes, o \in ProbeOutcomes :
          LET done(items, r) ==
                  /\ learned' = DictSet(learned, t, r.value)
                  /\ calls' = CountCalls(calls, r.probed)
                  /\ failures' = failures \o r.failures
                  /\ outcome' = [outcome EXCEPT ![First(tonertype_representatives(data, items))] = o]
                  /\ pc' = IF PendingTypes = {t} THEN "assign" ELSE "fetch"
              task(items) == done(items, tonertype_run_fetch(data, items, o))
          IN  task(ItemsOfType(data, work, t))
    /\ UNCHANGED << normVars, script, doc0, work, data, disk, tmp, only_ip, synthetic, exit, http >>

\* tonerTypeOld.py _update_json_inplace: one pass of the loop that learns
\* the value of each type
TonerTypeOldPass ==
    /\ script = "tonerTypeOld" /\ pc = "types"
    /\ \E o \in ProbeOutcomes :
          LET pass(t, items, r) ==
                  /\ learned' = DictSet(learned, t, r.value)
                  /\ calls' = CountCalls(calls, r.probed)
                  /\ failures' = failures \o r.failures
                  /\ outcome' = [i \in DOMAIN outcome |->
                                    IF r.probed # << >> /\ py_strip(data[i].ip) = r.probed[1]
                                    THEN o ELSE outcome[i]]
                  /\ pc' = IF PendingTypes = {t} THEN "assign" ELSE "types"
              settle(t, items) == pass(t, items, tonertypeold_learn(data, items, t, o))
              next(t) == settle(t, ItemsOfType(data, work, t))
          IN  next(NextType(data, work, PendingTypes))
    /\ UNCHANGED << normVars, script, doc0, work, data, disk, tmp, only_ip, synthetic, exit, http >>

\* the loop that writes the value of its type to every member
TonerTypeAssign ==
    /\ script \in { "tonerType", "tonerTypeOld" } /\ pc = "assign"
    /\ data' = [i \in DOMAIN data |->
                   IF i \notin work THEN data[i]
                   ELSE IF script = "tonerType"
                   THEN tonertype_assign(data[i], Get(learned, TypeKey(data[i]), << >>))
                   ELSE tonertypeold_assign(data[i], Get(learned, TypeKey(data[i]), ""))]
    /\ pc' = "save"
    /\ UNCHANGED << normVars, script, doc0, work, disk, tmp, outcome, failures, auxVars, exit >>

TypeNext ==
    \/ TonerTypePluginPass
    \/ TonerTypePlan
    \/ TonerTypeFetch
    \/ TonerTypeOldPass
    \/ TonerTypeAssign
    \/ OpenTmp
    \/ WriteTmp
    \/ Rename
    \/ Crash

SpecType == TypeInit /\ [][TypeNext]_vars

\* ------------------------------------------------------------------------
\* Properties of the normalisers
\* ------------------------------------------------------------------------
CanonicalSeverities == { "critical", "warning", "informational" }
SnmpScripts == { "snmp_plugin", "hp_ews_active_alerts" }
LedmScripts == { "ledm_plugin", "hp_ledm_status" }
EwsScripts == { "ews_alerts", "hp_snmp_enricher" }

\* C1: whatever the probe of any alert adapter returned (the no-address
\* short-circuit and the failed probe included), the severity written to
\* printerInfo.printerError.severity is one of critical, warning,
\* informational.
C1_SeverityCanonical ==
    \A s \in Scripts : Ran(s) => written[s].severity \in CanonicalSeverities

\* a numeric vendor severity ("7") and no catalog: written as critical
C1_Witness ==
    /\ kind = "ews"
    /\ dev.alerts = << EwsAlert("7", "U1-2320", "energy saver") >>
    /\ dev.catalog = << >>
    /\ Ran("ews_alerts")
    /\ written["ews_alerts"].severity = "critical"

\* the row dict a script builds from the columns a device holds for a row
TrueRow(set_column(_, _, _), r) ==
    LET f[k \in 0..Len(WalkColumns)] ==
            IF k = 0 THEN << >>
            ELSE IF Has(r, WalkColumns[k]) THEN set_column(f[k - 1], WalkColumns[k], r[WalkColumns[k]])
            ELSE f[k - 1]
    IN  f[Len(WalkColumns)]

RowTag(s, r) ==
    IF s = "snmp_plugin" THEN snmp_severity_tag(TrueRow(snmp_set_column, r))
    ELSE hpews_severity_tag(TrueRow(hpews_set_column, r))

RowMsg(s, r) ==
    IF s = "snmp_plugin" THEN snmp_mk_msg(TrueRow(snmp_set_column, r))
    ELSE hpews_mk_msg(TrueRow(hpews_set_column, r))

\* the positions in InstOrder (which is in numeric index order) of the rows
\* the script maps to critical and that carry a usable message
CriticalRows(s, table) ==
    { k \in 1..Len(InstOrder) :
        /\ InstOrder[k] \in DOMAIN table
        /\ RowTag(s, table[InstOrder[k]]) = "critical"
        /\ RowMsg(s, table[InstOrder[k]]) # "" }

\* C5: when the alert table holds a critical row with a usable message, the
\* problem reported is the message of the critical row with the numerically
\* lowest row index, wherever warning rows stand in the table.
C5_LowestCriticalRowReported ==
    \A s \in SnmpScripts :
        ( /\ kind = "snmp"
          /\ Ran(s)
          /\ dev.transport = "ok"
          /\ is_good_ip(norm_ip(dev))
          /\ CriticalRows(s, dev.table) # {} )
        => LET k == CHOOSE c \in CriticalRows(s, dev.table) :
                        \A o \in CriticalRows(s, dev.table) : c <= o
           IN  written[s].problem = RowMsg(s, dev.table[InstOrder[k]])

\* the rank best_event_from_table gives an Event, and the record it keeps
EventRank(ev) ==
    LET sev_raw == py_upper(py_strip(ledm_text_of_first(ev, {"Severity"})))
    IN  IF sev_raw \in DOMAIN SEVERITY_ORDER THEN SEVERITY_ORDER[sev_raw] ELSE -1

AlertRank(a) ==
    LET sev0 == ledm_text_of_first(a, {"Severity"})
        sev_raw == py_upper(py_strip(IF sev0 = "" THEN "Info" ELSE sev0))
    IN  IF sev_raw \in DOMAIN ALERT_SEV_RANK THEN ALERT_SEV_RANK[sev_raw] ELSE 0

\* the first position, in document order, of a record of the highest rank
FirstOfHighest(recs, rank(_)) ==
    CHOOSE i \in 1..Len(recs) :
        /\ \A j \in 1..Len(recs) : rank(recs[j]) <= rank(recs[i])
        /\ \A j \in 1..(i - 1) : rank(recs[j]) < rank(recs[i])

\* C6: over the Event elements of the event table, and over the Alert
\* elements of the status document, the record reported is the first one in
\* document order among those of the highest severity tier.
C6_FirstOfHighestTierReported ==
    ( kind = "ledm" /\ dev.transport = "ok" /\ (Ran("ledm_plugin") \/ Ran("hp_ledm_status")) )
    => LET evs == ledm_iter_elems_by_local(dev.events, "Event")
           als == ledm_iter_elems_by_local(dev.status, "Alert")
       IN  /\ evs # << >> =>
                ledm_best_event_from_table(dev.events).desc =
                    ledm_text_of_first(evs[FirstOfHighest(evs, EventRank)],
                                       {"Description", "EventDescription", "Name", "Reason"})
           /\ als # << >> =>
                ledm_best_alert_from_status(dev.status).desc =
                    ledm_text_of_first(als[FirstOfHighest(als, AlertRank)],
                                       {"AlertDetailsUserAction", "Description", "Name", "Reason"})

\* the canonical severity of a catalog status
CatalogSeverity(status) ==
    IF status = "CRITICAL" THEN "critical"
    ELSE IF status = "ATTENTION" THEN "warning"
    ELSE "informational"

\* C7: when the catalog has an entry for the resolved code of the chosen
\* alert, the errorState written has the entry's label and the entry's
\* severity, whatever the device's severity token and the description say;
\* only the Ready / Sleeping override replaces them.
C7_CatalogEntryWins ==
    \A s \in EwsScripts :
        ( kind = "ews" /\ Ran(s) /\ dev.alerts # << >> )
        => LET code == ews_pick_alert(dev.alerts, dev.catalog).code
               entry == dev.catalog[code]
               label == IF entry.info # "" THEN entry.info ELSE "Check printer"
           IN  (code # "" /\ Has(dev.catalog, code)) =>
                   IF py_lower(label) = "normal"
                   THEN written[s].problem = "Ready" /\ written[s].severity = "informational"
                   ELSE IF py_in("sleep", py_lower(label))
                   THEN written[s].problem = "Sleeping" /\ written[s].severity = "informational"
                   ELSE /\ written[s].problem = label
                        /\ written[s].severity = CatalogSeverity(entry.status)

\* the device says warning and "Jam"; the catalog entry says CRITICAL and
\* "Paper jam inside machine"
C7_Witness ==
    /\ kind = "ews"
    /\ dev.alerts = << EwsAlert("warning", "S2-4110", "Jam") >>
    /\ dev.catalog = CodeCatalog
    /\ Ran("ews_alerts")
    /\ Ran("hp_snmp_enricher")
    /\ written["ews_alerts"].problem = "Paper jam inside machine"
    /\ written["hp_snmp_enricher"].severity = "critical"

\* C8: no problem string the SNMP alert path writes contains, in any
\* letter case, a phrase of the suppression list.
C8_NoSuppressedPhraseWritten ==
    \A s \in SnmpScripts :
        (kind = "snmp" /\ Ran(s)) =>
            \A ph \in SUPPRESS_PHRASES : ~ py_in(ph, py_lower(written[s].problem))

\* C9: the errorState any alert adapter writes obeys the canonical
\* overrides: the label is never empty or "normal" (that is written as
\* Ready / informational), and a label containing "sleep" is written as
\* Sleeping / informational.
C9_CanonicalOverridesApplied ==
    \A s \in Scripts :
        Ran(s) =>
            LET low == py_lower(py_strip(written[s].problem))
            IN  /\ low \notin { "", "normal" }
                /\ py_in("sleep", low) => written[s].problem = "Sleeping"
                /\ written[s].problem \in { "Ready", "Sleeping" } => written[s].severity = "informational"

\* ------------------------------------------------------------------------
\* Properties of a run
\* ------------------------------------------------------------------------
\* C2: at every moment of a run the inventory document on disk is complete,
\* and it is the pre-run document or the post-run document.
C2_DiskAlwaysWholeDocument ==
    kind = "run" => (disk.exists /\ disk.complete /\ (disk.doc = doc0 \/ disk.doc = data))

Processed(i) == i \in work /\ outcome[i] # "none"

\* C3: in a batch, whatever the probes of the other entities did, the record
\* written for an entity is what its own handler makes of its own pre-run
\* record and its own probe; every selected entity is processed before the
\* document is saved; no exception leaves the batch.
C3_BatchIsolation ==
    kind = "run" =>
        /\ pc # "aborted"
        /\ \A i \in DOMAIN data :
              IF Processed(i)
              THEN data[i] = HandlerOf(script, doc0[i],
                                       IF outcome[i] = "noip" THEN "ok" ELSE outcome[i]).prn
              ELSE data[i] = doc0[i]
        /\ pc \in { "save", "writing", "written", "done" } => \A i \in work : Processed(i)

\* a gathered batch of two: the first probe timed out, the second answered
\* and is recorded online with its cartridges
C3_Witness ==
    /\ script = "toner_laserjet"
    /\ pc = "done"
    /\ work = {1, 2}
    /\ outcome = << "timeout", "ok" >>
    /\ data[1].info.status = "offline"
    /\ data[2].info.status = "online"
    /\ disk = FullFile(data)

\* the reasons the run's failure list retains for an entity
FailureReasons(e) ==
    { failures[k].reason : k \in { j \in 1..Len(failures) :
          Has(failures[j], "reason") /\ Has(failures[j], "id") /\ failures[j].id = e.ID } }

\* C4: an entity whose probe the per-task timeout cut off is recorded with
\* status offline, and the reason kept for it in printerInfo.reason and in
\* the run's failure list is a non-empty string.
C4_TimeoutRecordedWithReason ==
    \A i \in DOMAIN outcome :
        outcome[i] = "timeout" =>
            /\ Get(data[i].info, "status", "") = "offline"
            /\ Get(data[i].info, "reason", "") # ""
            /\ FailureReasons(data[i]) # {}
            /\ "" \notin FailureReasons(data[i])

\* the scripts that enrich the errorState only, and the printerInfo fields
\* each of them produces
ErrorStateScripts == { "snmp_plugin", "hp_ews_active_alerts", "hp_ledm_status", "hp_snmp_enricher" }
Produced(sc) ==
    IF sc = "hp_snmp_enricher" THEN { "printerError", "status", "reason" } ELSE { "printerError" }

Preserved(before, after) ==
    before.hasInfo =>
        \A k \in (DOMAIN before.info) \ Produced(script) :
            after.hasInfo /\ Has(after.info, k) /\ after.info[k] = before.info[k]

\* C10: in an errorState-only run, every printerInfo field of every entity
\* that the script does not produce keeps its pre-run value, in the document
\* in memory and in every whole document on disk, whether the entity's
\* probe answered or failed.
C10_UnproducedFieldsUnchanged ==
    (kind = "run" /\ script \in ErrorStateScripts) =>
        \A i \in DOMAIN doc0 :
            /\ Preserved(doc0[i], data[i])
            /\ (disk.complete => Preserved(doc0[i], disk.doc[i]))

\* both entities carry the toner type and cartridges of an earlier run; one
\* probe answered, the other failed, and both records are on disk with the
\* new printerError beside the old fields
C10_Witness ==
    /\ script = "snmp_plugin"
    /\ pc = "done"
    /\ outcome = << "ok", "error" >>
    /\ \A i \in {1, 2} :
          /\ doc0[i].info = TonerRunInfo
          /\ Has(disk.doc[i].info, "printerError")
          /\ disk.doc[i].info.tonerType = "CF287A"
          /\ disk.doc[i].info.cartridges = TonerRunInfo.cartridges
    /\ disk.doc[1].info.printerError.severity = "informational"
    /\ disk.doc[2].info.printerError.problem = "Offline"

\* the printerInfo fields a supply-level run produces
SupplyLevelFields == { "status", "reason", "cartridges" }

\* C11: a supply-level run merges into printerInfo: after it every field of
\* an entity's pre-run printerInfo other than status, reason and cartridges
\* (the printerError and the tonerType of earlier runs) is still there with
\* its pre-run value, whether the probe answered, failed or was skipped for
\* want of an address.
C11_SiblingFieldsPreserved ==
    (kind = "run" /\ script = "toner_laserjet") =>
        \A i \in DOMAIN doc0 :
            doc0[i].hasInfo =>
                \A k \in (DOMAIN doc0[i].info) \ SupplyLevelFields :
                    /\ data[i].hasInfo
                    /\ Has(data[i].info, k)
                    /\ data[i].info[k] = doc0[i].info[k]

\* ------------------------------------------------------------------------
\* Properties of a supply-type-code run
\* ------------------------------------------------------------------------
\* the number of probes a run has sent
TotalCalls(c) ==
    LET f[S \in SUBSET DOMAIN c] ==
            IF S = {} THEN 0
            ELSE c[CHOOSE x \in S : TRUE] + f[S \ { CHOOSE x \in S : TRUE }]
    IN  f[DOMAIN c]

\* the value an entity carries; an entity without one carries the marker
CarriedValue(sc, e) ==
    IF sc = "tonerTypeOld"
    THEN (IF e.hasInfo THEN Get(e.info, "tonerType", "<none>") ELSE "<none>")
    ELSE (IF e.hasInfo THEN Get(e.info, "tonerType", << "<none>" >>) ELSE << "<none>" >>)

\* three entities of one declared type, exactly one of them with a usable
\* address, none of them carrying a value
OneAddressAmongThree(doc) ==
    /\ Len(doc) = 3
    /\ \A i \in 1..3 : TypeKey(doc[i]) = TypeKey(doc[1]) /\ ~ doc[i].hasInfo
    /\ Cardinality({ i \in 1..3 : is_good_ip(norm_ip(doc[i])) }) = 1

\* C12: a supply-type-code run over three entities of one declared type, of
\* which one has a usable address and none carries a value, sends exactly
\* one probe, and when it is over the three entities carry one and the same
\* value.
C12_OneProbeSharedByType ==
    (kind = "types" /\ OneAddressAmongThree(doc0) /\ pc = "done") =>
        /\ TotalCalls(calls) = 1
        /\ \A i \in 1..3 : CarriedValue(script, disk.doc[i]) = CarriedValue(script, disk.doc[1])

\* ------------------------------------------------------------------------
\* Properties of the address handling
\* ------------------------------------------------------------------------
HasNoAddress(e) == py_lower(py_strip(e.ip)) \in PlaceholderAddresses

\* the record of an entity resolved without a probe: offline, or ready with
\* an informational errorState
ResolvedWithoutProbe(e) ==
    /\ e.hasInfo
    /\ \/ Get(e.info, "status", "") = "offline"
       \/ /\ Has(e.info, "printerError")
          /\ e.info.printerError.severity = "informational"
          /\ e.info.printerError.problem \in { "Normal", "Ready" }

\* C13: in every run no probe is sent to an absent or placeholder address
\* ("-", empty, "null", "0.0.0.0"), and an entity with such an address that
\* the run handles is recorded offline, or ready and informational.
C13_NoProbeWithoutAddress ==
    kind = "run" =>
        \A i \in DOMAIN data :
            HasNoAddress(doc0[i]) =>
                /\ ~ synthetic.made => Get(calls, py_strip(doc0[i].ip), 0) = 0
                /\ (i \in work /\ outcome[i] # "none") => ResolvedWithoutProbe(data[i])

\* ------------------------------------------------------------------------
\* Properties of what a successful probe records
\* ------------------------------------------------------------------------
\* the device at the address of an entity answers the alert walk with the
\* single row { critical, "Door open" }
DoorOpenDevice(e) ==
    LET answers(t) ==
            /\ DOMAIN t = { "1.1" }
            /\ snmp_severity_tag(TrueRow(snmp_set_column, t["1.1"])) = "critical"
            /\ snmp_mk_msg(TrueRow(snmp_set_column, t["1.1"])) = "Door open"
    IN  answers(NetDevice(py_strip(e.ip), "ok").table)

\* C14: after a run every entity in scope whose probe answered has status
\* "online" beside the attribute the run enriches; an entity whose alert
\* table is the single row { critical, "Door open" } ends an SNMP alert run
\* with the errorState { "Door open", critical } and status "online".
C14_AnsweredProbeRecordsOnline ==
    kind = "run" =>
        \A i \in work :
            outcome[i] = "ok" =>
                /\ data[i].hasInfo
                /\ Get(data[i].info, "status", "") = "online"
                /\ (script \in SnmpScripts /\ DoorOpenDevice(doc0[i])) =>
                       /\ Has(data[i].info, "printerError")
                       /\ data[i].info.printerError.problem = "Door open"
                       /\ data[i].info.printerError.severity = "critical"

\* the device at the entity's address answers the script's probe with a
\* well-formed empty response: an empty alert table and no error-state bits,
\* or an empty list of alerts
EmptyAnswer(sc, e) ==
    LET empty(d) ==
            IF sc \in SnmpScripts THEN d.table = << >> /\ d.hr = << >>
            ELSE sc = "hp_snmp_enricher" /\ d.alerts = << >>
    IN  is_good_ip(norm_ip(e)) /\ empty(NetDevice(py_strip(e.ip), "ok"))

\* C15: an entity whose probe ended in a transport failure (timeout or
\* connection error) is never left with the record that the well-formed
\* empty answer of its device would have given it.
C15_FailureDistinctFromEmpty ==
    kind = "run" =>
        \A i \in work :
            (outcome[i] \in { "timeout", "error" } /\ EmptyAnswer(script, doc0[i])) =>
                data[i] # HandlerOf(script, doc0[i], "ok").prn

\* ------------------------------------------------------------------------
\* Properties of the selection and of the one-off entity
\* ------------------------------------------------------------------------
\* the declared model of an entity matches the script's target list
ModelMatches(sc, e) ==
    CASE sc = "snmp_plugin" -> matches_type(e, SNMP_TARGET_TYPES)
      [] sc = "hp_ews_active_alerts" -> matches_type(e, SNMP_TARGET_TYPES)
      [] sc = "hp_ledm_status" -> matches_type(e, LEDM_TARGET_TYPES)
      [] sc = "hp_snmp_enricher" -> legacy_matches_type(e.Type, EWS_TARGET_TYPES)
      [] OTHER -> legacy_matches_type(e.Type, TONER_TARGET_TYPES)

\* C16: among the entities that have a usable address, the ones a run works
\* on are, with -ip, exactly those whose address equals the requested one,
\* whatever their declared model, and without -ip exactly those whose
\* declared model matches the script's target list.
C16_SelectionByTargetOrModel ==
    kind = "run" =>
        \A i \in DOMAIN doc0 :
            is_good_ip(norm_ip(doc0[i])) =>
                ( i \in work <=>
                    IF only_ip # "" THEN py_strip(doc0[i].ip) = only_ip
                    ELSE ModelMatches(script, doc0[i]) )

\* the requested address is the address of no entity of the document
TargetUnknown == only_ip # "" /\ \A i \in DOMAIN doc0 : py_strip(doc0[i].ip) # only_ip

\* C17: when -ip names an address no entity has, every script has, by the
\* time it saves, made a one-off entity for the address and sent exactly one
\* probe to it.
C17_UnknownTargetProbedOnce ==
    (kind = "run" /\ TargetUnknown /\ pc \in { "save", "writing", "written", "done" }) =>
        /\ synthetic.made
        /\ Get(calls, only_ip, 0) = 1

\* the frame of a run on a document d it holds or has written: the entities
\* of the pre-run document, each at its place, with its identity, declared
\* model and address, and with its pre-run printerInfo unless the run worked
\* on it
FrameKept(d) ==
    /\ Len(d) = Len(doc0)
    /\ \A i \in DOMAIN doc0 :
          /\ d[i].ID = doc0[i].ID
          /\ d[i].Type = doc0[i].Type
          /\ d[i].ip = doc0[i].ip
          /\ i \notin work => d[i] = doc0[i]
    /\ synthetic.made => \A i \in DOMAIN d : d[i].ID # synthetic.prn.ID

\* C18: in every run, a run with -ip for an address no entity has included,
\* the document the run holds and every whole document it has written have
\* the entities of the pre-run document in their places, with every field
\* outside printerInfo unchanged and with the printerInfo of every entity the
\* run did not work on unchanged; the one-off entity is in neither.
C18_OnlyPrinterInfoOfScopeChanges ==
    kind = "run" =>
        /\ FrameKept(data)
        /\ disk.complete => FrameKept(disk.doc)
        /\ tmp.complete => FrameKept(tmp.doc)

\* hp_ews_active_alerts.py -ip 10.0.0.9 over a document that has no such
\* address: the one-off entity was probed, the run has saved, and the
\* document on disk is the pre-run document
C18_Witness ==
    /\ script = "hp_ews_active_alerts"
    /\ only_ip = "10.0.0.9"
    /\ pc = "done"
    /\ synthetic.made
    /\ Has(synthetic.prn.info, "printerError")
    /\ Get(calls, "10.0.0.9", 0) = 1
    /\ disk = FullFile(doc0)

(***************************************************************************)
(* Properties of a run whose load or write fails                           *)
(***************************************************************************)

\* C19: when the load of the document or the final write fails, the failure
\* is reported, the process exits with a non-zero code, and the file holds
\* what it held before the run.
C19_FailedRunReportsAndKeepsDocument ==
    (kind = "run" /\ pc = "failed") =>
        /\ exit.ended
        /\ exit.reported
        /\ exit.code # 0
        /\ doc0 # << >> => disk = FullFile(doc0)

(***************************************************************************)
(* Properties of the HTTP transport                                        *)
(***************************************************************************)

\* C20: an HTTPS request is sent with the legacy TLS adapter only when the
\* request just before it was the same request (same device, same path)
\* sent with the default adapter and failed with a TLS handshake error; in
\* particular the first request to a device never uses the legacy adapter.
C20_LegacyOnlyAfterHandshakeFailure ==
    kind = "run" =>
        \A k \in DOMAIN http.sent :
            http.sent[k].legacy =>
                /\ k > 1
                /\ http.sent[k - 1].ip = http.sent[k].ip
                /\ http.sent[k - 1].path = http.sent[k].path
                /\ ~ http.sent[k - 1].legacy
                /\ http.sent[k - 1].outcome = "sslerror"

(***************************************************************************)
(* Properties of a run with its probes in flight                           *)
(***************************************************************************)

\* a step taken once the write has started: the document in memory and the
\* handlers are left alone, and the write moves on to its end
WriteGoesOn ==
    pc \in WriteStarted =>
        /\ data' = data
        /\ outcome' = outcome
        /\ pc' \in { "written", "done" }
        /\ pc' # pc

\* C21: the write of the document starts only when the handler of every
\* entity of the work list is over, nothing of the document in memory
\* changes once the write has started, and the write is not started again.
C21_WriteOnceAfterJoin ==
    /\ [](kind = "run" /\ pc \in WriteStarted => Unresolved = {})
    /\ [][WriteGoesOn]_vars

\* a gathered batch of two whose probes were both in flight and ended
\* differently; the document with both results is on disk
C21_Witness ==
    /\ script = "hp_ews_active_alerts"
    /\ pc = "done"
    /\ work = {1, 2}
    /\ outcome = << "ok", "timeout" >>
    /\ Get(calls, "10.0.0.1", 0) = 1
    /\ Get(calls, "10.0.0.2", 0) = 1
    /\ disk = FullFile(data)
    /\ data # doc0

\* C22: while the probe of one entity is in flight (it may stay so until its
\* timeout), the handler of an entity that has not started yet can start: a
\* blocked probe does not hold back the others.
C22_BlockedProbeDelaysNoOther ==
    (kind = "run" /\ pc = "enrich" /\ Running # {} /\ Pending # {}) =>
        \E j \in Pending : CanStart(j)

(***************************************************************************)
(* Properties of the groups of a supply-type-code run                      *)
(***************************************************************************)

\* the entities of the document that declare model t
GroupOf(t) == { i \in DOMAIN doc0 : TypeKey(doc0[i]) = t }

\* an entity carries no value: the field is absent or empty
CarriesNothing(sc, e) ==
    IF sc = "tonerTypeOld"
    THEN CarriedValue(sc, e) \in { "", "<none>" }
    ELSE CarriedValue(sc, e) \in { << >>, << "<none>" >> }

\* the probes sent to the members of a group
GroupCalls(G) == TotalCalls([a \in { py_strip(doc0[i].ip) : i \in G } \cap DOMAIN calls |-> calls[a]])

\* what the device of a member answers
ProbedValue(sc, e) ==
    IF sc = "tonerTypeOld" THEN NetDevice(norm_ip(e), "ok").toner_name
    ELSE NetDevice(norm_ip(e), "ok").codes

\* the group is settled as the rule says: from a member that carries a
\* value and without a probe, or else by one probe of the first member with
\* a usable address, and every member ends with the same value
GroupSettled(G, carriers, usable) ==
    IF carriers # {}
    THEN /\ GroupCalls(G) = 0
         /\ \A i \in G : CarriedValue(script, disk.doc[i]) = CarriedValue(script, doc0[First(carriers)])
    ELSE IF usable # {}
    THEN /\ GroupCalls(G) = 1
         /\ Get(calls, norm_ip(doc0[First(usable)]), 0) = 1
         /\ IF outcome[First(usable)] = "ok"
            THEN \A i \in G : CarriedValue(script, disk.doc[i]) = ProbedValue(script, doc0[First(usable)])
            ELSE \A i \in G : CarriesNothing(script, disk.doc[i])
    ELSE /\ GroupCalls(G) = 0
         /\ \A i \in G : CarriesNothing(script, disk.doc[i])

\* C23: after a supply-type-code run without -ip, every group of entities of
\* one declared model was settled without a probe when a member carried a
\* value, and otherwise by exactly one probe of its first member with a
\* usable address; all its members carry the same value, the probed one on
\* success and the empty one on failure.
C23_GroupSettledByOneProbe ==
    (kind = "types" /\ pc = "done") =>
        \A t \in { TypeKey(doc0[i]) : i \in DOMAIN doc0 } :
            GroupSettled(GroupOf(t),
                         { i \in GroupOf(t) : ~ CarriesNothing(script, doc0[i]) },
                         { i \in GroupOf(t) : is_good_ip(norm_ip(doc0[i])) })

(***************************************************************************)
(* Runs that follow one another on the same document                       *)
(***************************************************************************)

RerunScripts == { "hp_snmp_enricher", "toner_laserjet", "tonerTypeOld" }

\* the -ip arguments of a run: tonerTypeOld.py runs _enrich_item only with
\* -ip, the other two with and without
RerunIps(sc) == IF sc = "tonerTypeOld" THEN { "10.0.0.1" } ELSE { "", "10.0.0.1" }

RerunWork(sc, ip, doc) == IF ip = "" THEN Work(sc, doc) ELSE TargetWork(sc, ip, doc)

\* documents no run has touched yet
FreshDocuments ==
    { d \in [1..NumEntities -> UNION { { Entity(i, "408dn", "10.0.0." \o py_str(i), FALSE, << >>),
                                          Entity(i, "408dn", "-", FALSE, << >>) } : i \in 1..NumEntities }] :
        \A i \in 1..NumEntities : d[i].ID = "P" \o py_str(i) }

RunsInit ==
    /\ kind = "runs"
    /\ dev = << >>
    /\ written = [s \in Scripts |-> NotRun]
    /\ script \in RerunScripts
    /\ doc0 \in FreshDocuments
    /\ only_ip \in RerunIps(script)
    /\ work = RerunWork(script, only_ip, doc0)
    /\ data = doc0
    /\ disk = FullFile(doc0)
    /\ tmp = NoFile
    /\ pc = IF work = {} THEN "save" ELSE "enrich"
    /\ outcome = [i \in 1..NumEntities |-> "none"]
    /\ failures = << >>
    /\ calls = << >>
    /\ learned = << >>
    /\ synthetic = NoSynthetic
    /\ exit = NotExited
    /\ http = NoHttp

\* tonerTypeOld.py _update_json_inplace with -ip: "for it in work:
\* _enrich_item(it, timeout)"
TonerTypeOldIteration ==
    /\ script = "tonerTypeOld" /\ pc = "enrich"
    /\ UNCHANGED http
    /\ \E i \in Pending, o \in ProbeOutcomes :
          NextInOrder(i) /\ Finish(i, IF is_good_ip(norm_ip(data[i])) THEN o ELSE "noip",
                                   tonertypeold_enrich_item(data[i], o))

\* the next run: one of the scripts is started on the document the last run
\* left on disk, in a new process
RunAgain ==
    /\ kind = "runs" /\ pc = "done"
    /\ \E sc \in RerunScripts : \E ip \in RerunIps(sc) :
          /\ script' = sc
          /\ only_ip' = ip
          /\ work' = RerunWork(sc, ip, disk.doc)
          /\ pc' = IF RerunWork(sc, ip, disk.doc) = {} THEN "save" ELSE "enrich"
    /\ doc0' = disk.doc
    /\ data' = disk.doc
    /\ outcome' = [i \in 1..NumEntities |-> "none"]
    /\ failures' = << >>
    /\ calls' = << >>
    /\ exit' = NotExited
    /\ UNCHANGED << normVars, disk, tmp, learned, synthetic, http >>

RunsNext ==
    \/ HpEnrIteration
    \/ TonerTask
    \/ TonerTypeOldIteration
    \/ OpenTmp
    \/ WriteTmp
    \/ Rename
    \/ RunAgain

SpecRuns == RunsInit /\ [][RunsNext]_vars

(***************************************************************************)
(* Properties of the walk of the alert table                               *)
(***************************************************************************)

\* the OID has the shape <alert table root>.c.d.i with numeric c, d and i
RowShaped(oid) ==
    LET shaped(rest) == Len(rest) = 3 /\ \A k \in 1..3 : py_isdigit(rest[k])
    IN  /\ py_startswith(oid, ALERT_TABLE_ROOT \o ".")
        /\ shaped(py_split_dot(SubSeq(oid, Len(ALERT_TABLE_ROOT) + 2, Len(oid))))

\* the varbinds of a walk that have the row shape, in their order
RECURSIVE RowShapedOnly(_)
RowShapedOnly(vbs) ==
    IF vbs = << >> THEN << >>
    ELSE IF RowShaped(Head(vbs).oid) THEN << Head(vbs) >> \o RowShapedOnly(Tail(vbs))
    ELSE RowShapedOnly(Tail(vbs))

\* C24: a varbind whose OID has not the row shape is skipped: what an alert
\* adapter reports for a walk is what it reports for the walk without such
\* varbinds, and never the failure of the probe.
C24_MisparsedVarbindSkipped ==
    kind = "walk" =>
        /\ Ran("snmp_plugin") =>
              written["snmp_plugin"] = snmpplugin_printerError_walk(RowShapedOnly(dev.vbs), dev.hr)
        /\ Ran("hp_ews_active_alerts") =>
              written["hp_ews_active_alerts"] = hpews_printerError_walk(RowShapedOnly(dev.vbs), dev.hr)

\* the components c, d, i of an OID of the row shape
OidRest(oid) == py_split_dot(SubSeq(oid, Len(ALERT_TABLE_ROOT) + 2, Len(oid)))
ColumnOf(oid) == OidRest(oid)[1]
InstanceOf(oid) == << OidRest(oid)[2], OidRest(oid)[3] >>

\* what a row holds for a value of the walk: the number of a severity, the
\* text of a description
RecordedValue(col, value) ==
    IF col = COL_DESC THEN py_strip(snmp_to_text(value)) ELSE py_int_value(value).v

\* rows holds one row per instance of vbs, and every value of vbs is in the
\* row of its instance under its column
KeyedByInstance(rows, vbs) ==
    LET insts == { InstanceOf(vbs[k].oid) : k \in 1..Len(vbs) }
        placed(f) ==
            /\ \A a, b \in insts : f[a] = f[b] => a = b
            /\ \A k \in 1..Len(vbs) :
                  /\ Has(rows[f[InstanceOf(vbs[k].oid)]], ColumnOf(vbs[k].oid))
                  /\ rows[f[InstanceOf(vbs[k].oid)]][ColumnOf(vbs[k].oid)]
                        = RecordedValue(ColumnOf(vbs[k].oid), vbs[k].value)
    IN  \E f \in [insts -> DOMAIN rows] : placed(f)

AllRowShaped(vbs) == \A k \in 1..Len(vbs) : RowShaped(vbs[k].oid)

\* C25: the value of a varbind <alert table root>.c.d.i is recorded under
\* column c of the row of the instance (d, i), and two instances never share
\* a row, in the rows of either alert adapter.
C25_RowsKeyedByInstance ==
    (kind = "walk" /\ AllRowShaped(dev.vbs)) =>
        /\ Ran("snmp_plugin") => KeyedByInstance(snmp_alert_rows(dev.vbs).rows, dev.vbs)
        /\ Ran("hp_ews_active_alerts") => KeyedByInstance(hpews_rows(dev.vbs), dev.vbs)

(***************************************************************************)
(* Properties of the fallbacks of the SNMP alert adapters                  *)
(***************************************************************************)

\* the message the rows of the walked alert table yield to the adapter and
\* to the legacy script, ok = FALSE when they yield none
SnmpTableMsg == snmp_decide_message_from_rows(snmp_alert_rows(dev.vbs).rows)
HpEwsTableMsg == hpews_fetch_alerts(dev.vbs, << >>)

\* the table's message, else the bitmask's, else the default
Fallbacks(table, hr) ==
    IF table.ok THEN [problem |-> table.msg, severity |-> table.sev]
    ELSE IF hr.ok THEN [problem |-> hr.msg, severity |-> hr.sev]
    ELSE [problem |-> "Normal", severity |-> "informational"]

\* the walk of the alert table has been read to its end
Answering == kind = "walk" /\ ~ snmp_alert_rows(dev.vbs).raised

\* C26: the adapter reports the bitmask's message only when no row of the
\* alert table yielded one, and then whatever the bitmask holds changes
\* nothing of the report; it reports Normal / informational only when neither
\* yielded a message. The legacy script does the same on its own readings.
C26_BitmaskOnlyWithoutTableMessage ==
    Answering =>
        /\ Ran("snmp_plugin") =>
              /\ written["snmp_plugin"] = Fallbacks(SnmpTableMsg, snmp_hr_errorstate(dev.hr))
              /\ SnmpTableMsg.ok =>
                    \A h \in HrValues :
                        snmpplugin_printerError_walk(dev.vbs, h) = written["snmp_plugin"]
        /\ Ran("hp_ews_active_alerts") =>
              LET report(f) == hpews_printer_error_obj(f.problem, f.severity)
                  table(t) == [ok |-> t.msg # "Normal", msg |-> t.msg, sev |-> t.sev]
              IN  written["hp_ews_active_alerts"]
                      = report(Fallbacks(table(HpEwsTableMsg), hpews_hr_errorstate_msg(dev.hr)))

\* the adapter has reported the message of a row while the bitmask holds
\* one too
C26_Witness ==
    /\ Answering
    /\ Ran("snmp_plugin")
    /\ SnmpTableMsg.ok
    /\ snmp_hr_errorstate(dev.hr).ok
    /\ written["snmp_plugin"].problem = SnmpTableMsg.msg
    /\ written["snmp_plugin"].problem # snmp_hr_errorstate(dev.hr).msg

(***************************************************************************)
(* Properties of the tallies of a run                                      *)
(***************************************************************************)

\* tonerType.py _update_by_type_async, the tallies it returns: every
\* selected entity, those whose tonerType is not None, the failure events
tonertype_tallies ==
    [processed |-> Cardinality(work),
     online |-> Cardinality({ i \in work : data[i].hasInfo /\ Has(data[i].info, "tonerType") }),
     offline |-> Len(failures)]

\* hp_ews_active_alerts.py _process: offline counts offline_ips, online is
\* the rest of the work list
hpews_tallies ==
    LET tally(processed, offline) ==
            [processed |-> processed, online |-> processed - offline, offline |-> offline]
    IN  tally(Cardinality(work) + (IF synthetic.made THEN 1 ELSE 0), Len(failures))

\* toner-LaserJet.py _update_json_inplace_async: touched counts the results,
\* online and offline the status the entities of the work list carry
toner_tallies ==
    LET status(i, st) == data[i].hasInfo /\ Has(data[i].info, "status") /\ data[i].info.status = st
    IN  [processed |-> Cardinality(work),
         online |-> Cardinality({ i \in work : status(i, "online") }),
         offline |-> Cardinality({ i \in work : status(i, "offline") })]

Tallies ==
    CASE script = "tonerType" -> tonertype_tallies
      [] script = "hp_ews_active_alerts" -> hpews_tallies
      [] OTHER -> toner_tallies

TallyScripts == { "tonerType", "hp_ews_active_alerts", "toner_laserjet" }

\* C27: after a batch the tallies of the run summary add up, processed =
\* online + offline, and the failure list holds one entry for each entity
\* counted offline.
C27_TalliesAddUp ==
    (kind \in {"run", "types"} /\ script \in TallyScripts /\ pc = "done") =>
        /\ Tallies.processed = Tallies.online + Tallies.offline
        /\ Len(failures) = Tallies.offline

(***************************************************************************)
(* Properties of the source of an LEDM report                              *)
(***************************************************************************)

\* the documents the two LEDM clients parse
StatusRoot == IF dev.transport # "ok" THEN NoXml ELSE dev.status
EventsRoot == IF dev.transport # "ok" THEN NoXml ELSE dev.events

\* the problem text of the first source that has one, with the severity of
\* that source: the best Event, the best Alert, the status string
OneSourcePair ==
    LET pair(ev, al, st) ==
            IF ev.desc # "" THEN << ev.desc, ev.sev >>
            ELSE IF al.desc # "" THEN << al.desc, al.sev >>
            ELSE IF st # "" THEN << st, ledm_derive_severity_from_problem(st) >>
            ELSE << "Unknown", ledm_derive_severity_from_problem("Unknown") >>
    IN  pair(ledm_best_event_from_table(EventsRoot),
             ledm_best_alert_from_status(StatusRoot),
             ledm_problem_from_status(StatusRoot))

\* what a client reports of a pair: the normalisation, and the default of
\* an empty problem
Reported(raw, default) ==
    LET result(n) ==
            [problem |-> IF n[1] = "" THEN default ELSE n[1],
             severity |-> IF n[2] = "" THEN "informational" ELSE n[2]]
    IN  result(ledm_normalize_problem_and_severity(raw[1], raw[2]))

\* C28: the problem and the severity an LEDM client reports come from one
\* source record: the severity is that of the Event, the Alert or the
\* status string the problem text was taken from.
C28_PairFromOneSource ==
    (kind = "ledm" /\ is_good_ip(norm_ip(dev))) =>
        /\ Ran("ledm_plugin") => written["ledm_plugin"] = Reported(OneSourcePair, "Normal")
        /\ Ran("hp_ledm_status") => written["hp_ledm_status"] = Reported(OneSourcePair, None)

(***************************************************************************)
(* Properties of runs that follow one another                              *)
(***************************************************************************)

\* C29: after any sequence of runs, an entity the last run probed with
\* success is left with status online and without a failure reason.
C29_LatestSuccessLeavesNoReason ==
    (kind = "runs" /\ pc = "done") =>
        \A i \in work :
            outcome[i] = "ok" =>
                /\ disk.doc[i].hasInfo
                /\ Get(disk.doc[i].info, "status", "") = "online"
                /\ ~ Has(disk.doc[i].info, "reason")

(***************************************************************************)
(* Properties of the two classifications of an alert severity              *)
(***************************************************************************)

\* the row dict either script holds for a row of the device's alert table
\* of which only the severity is looked at
SeverityRow(row) ==
    LET put(n) == IF n.ok THEN (COL_SEVERITY :> n.v) ELSE << >>
    IN  IF Has(row, COL_SEVERITY) THEN put(py_int_value(row[COL_SEVERITY])) ELSE << >>

\* C30: the adapter and the legacy script give the severity of every row of
\* an alert table the same tag.
C30_SameSeverityTag ==
    (kind = "snmp" /\ Ran("snmp_plugin") /\ Ran("hp_ews_active_alerts")) =>
        \A inst \in DOMAIN dev.table :
            snmp_severity_tag(SeverityRow(dev.table[inst]))
                = hpews_severity_tag(SeverityRow(dev.table[inst]))
====
